---- MODULE Spec2Model ----
(***************************************************************************)
(* Verification model of the document structuring and chunking pipeline    *)
(* of PDF_Info_Retrieval: TextProcessor (clean_text, create_chunks,        *)
(* process), PaperAnalyzer (extract_sections, extract_technical_terms,     *)
(* extract_figures_tables_equations) and DocumentAnalyzer                  *)
(* (_extract_summary).                                                     *)
(*                                                                         *)
(* A Python str is a sequence of one-character strings.  Offsets are       *)
(* Python offsets (0-based); index i of a sequence is offset i-1.          *)
(* Regular expressions are translated pattern by pattern into operators    *)
(* that return what re.sub / re.split / re.search / re.finditer return.    *)
(***************************************************************************)
EXTENDS Integers, Sequences, FiniteSets, TLC

VARIABLES
    text,                 \* the input string handed to the operation
    chunk_text,           \* create_chunks: its text argument
    op,                   \* the operation that was called ("" before the call)
    pc,                   \* position of the run: "input", "loop", "done"
    chunk_size,           \* Config.chunk_size of the TextProcessor in use
    sections,             \* create_chunks: result of _header_pattern.split
    idx,                  \* create_chunks: index of the next segment
    current_chunk_words,  \* create_chunks: pending word buffer
    current_length,       \* create_chunks: running length of the buffer
    current_offset,       \* create_chunks: running offset counter
    current_section,      \* create_chunks: current section label
    chunks,               \* create_chunks: the TextChunk list built so far
    result,               \* value returned by the other (pure) operations
    npieces,              \* number of pieces the input was built from
    previous,             \* value returned by an earlier run on the same text
    returned,             \* the value each pass over the text returned, by call
    top_n_given,          \* _extract_keywords: the top_n the last call was given
    _vectorstore,         \* VectorStoreManager._vectorstore
    _embedding_model,     \* VectorStoreManager._embedding_model
    _chain,               \* ConversationManager._chain
    _retriever,           \* ConversationManager._retriever
    _llm,                 \* ConversationManager._llm
    _message_history,     \* ConversationManager._message_history
    _chat_history,        \* ConversationManager._chat_history
    _last_source_docs,    \* ConversationManager._last_source_docs
    raised,               \* the exception the last call raised ("" if none)
    ncalls,               \* number of calls made on the managers
    stores_made,          \* history: create_vectorstore and load_local calls
                          \* that succeeded
    chains_made,          \* history: create_chain calls that succeeded since
                          \* construction or the last reset()
    questions_asked,      \* history: the questions of the asks that succeeded
                          \* since construction, the last clear_history() or
                          \* the last reset()
    _processed_count,     \* PDFProcessor._processed_count
    _failed_files,        \* PDFProcessor._failed_files
    pdf_files,            \* extract_text_from_files: its pdf_files argument
    continue_on_error,    \* extract_text_from_files: its continue_on_error argument
    file_idx,             \* extract_text_from_files: index of the next file
    combined_text         \* extract_text_from_files: the text gathered so far

\* the fields of a VectorStoreManager and of a ConversationManager
storeVars == <<_vectorstore, _embedding_model>>
convVars == <<_chain, _retriever, _llm, _message_history, _chat_history,
              _last_source_docs>>
pdfVars == <<_processed_count, _failed_files, pdf_files, continue_on_error,
             file_idx, combined_text>>
managerVars == <<storeVars, convVars, raised, ncalls, stores_made, chains_made,
                 questions_asked, pdfVars>>

vars == <<text, chunk_text, op, pc, chunk_size, sections, idx, current_chunk_words,
          current_length, current_offset, current_section, chunks, result, npieces,
          previous, returned, top_n_given, managerVars>>

chunkVars == <<chunk_text, chunk_size, sections, idx, current_chunk_words,
               current_length, current_offset, current_section, chunks>>

(***************************************************************************)
(* Bounds of the model                                                     *)
(***************************************************************************)
MaxPieces == 3        \* pieces concatenated into a chunker input
MaxCleanPieces == 3   \* pieces concatenated into a normalizer input
MaxSectionPieces == 3 \* pieces concatenated into an extract_sections input
MaxFigurePieces == 3  \* pieces concatenated into a figure-extraction input
MaxTermPieces == 3    \* pieces concatenated into a term-extraction input
MaxSummaryPieces == 3 \* pieces concatenated into a summary input
MaxPassPieces == 2    \* pieces concatenated into a document the passes share
MaxDefaultPieces == 3 \* pieces concatenated into a nearly empty document
MaxReversedPieces == 3 \* pieces concatenated into a possibly reversed document
MaxCaptionPieces == 3 \* pieces concatenated into a text with captions
MaxStoreCalls == 4    \* calls made on a VectorStoreManager
MaxConversationCalls == 4 \* calls made on a ConversationManager
MaxCitationPieces == 3 \* pieces concatenated into a text with citations
MaxKeywordPieces == 3 \* pieces concatenated into a text with repeated words
MaxFiles == 3         \* files handed to extract_text_from_files in one batch
MaxPdfCalls == 2      \* calls made on a PDFProcessor
SmallChunkSize == 3   \* a Config(chunk_size=...) that forces splitting
LargeChunkSize == 9   \* a Config(chunk_size=...) that holds a header

(***************************************************************************)
(* Characters and Python str helpers                                       *)
(***************************************************************************)
Min(S) == CHOOSE x \in S : \A y \in S : x <= y
Max(S) == CHOOSE x \in S : \A y \in S : x >= y

\* None of Optional[str]; no label produced by the code is the empty string
None == <<>>

\* None where an object is expected, and an attribute that was never assigned
Null == [kind |-> "None"]
Unset == [kind |-> "unset"]

\* None passed where a str argument is expected
NoneStr == [none |-> TRUE, s |-> <<>>]

UpperCase == <<"A","B","C","D","E","F","G","H","I","J","K","L","M",
               "N","O","P","Q","R","S","T","U","V","W","X","Y","Z">>
LowerCase == <<"a","b","c","d","e","f","g","h","i","j","k","l","m",
               "n","o","p","q","r","s","t","u","v","w","x","y","z">>

UpperSet == {UpperCase[i] : i \in 1..26}
LowerSet == {LowerCase[i] : i \in 1..26}
Digits == {"0", "1", "2", "3", "4", "5", "6", "7", "8", "9"}
LowerOf == [c \in UpperSet |-> LowerCase[CHOOSE i \in 1..26 : UpperCase[i] = c]]
UpperOf == [c \in LowerSet |-> UpperCase[CHOOSE i \in 1..26 : LowerCase[i] = c]]

IsUpper(c) == c \in UpperSet
IsLower(c) == c \in LowerSet
IsDigit(c) == c \in Digits

\* one character under re.IGNORECASE / ASCII case folding
casefold(c) == IF c \in UpperSet THEN LowerOf[c] ELSE c
upperc(c) == IF c \in LowerSet THEN UpperOf[c] ELSE c

\* \s of the re module, str.split() and str.strip() whitespace
IsSpace(c) == c \in {" ", "\n"}

\* the sequences ss[lo], ..., ss[hi] concatenated
RECURSIVE FlattenIn(_, _, _)
FlattenIn(ss, lo, hi) ==
    IF lo > hi THEN <<>>
    ELSE IF lo = hi THEN ss[lo]
    ELSE FlattenIn(ss, lo, (lo + hi) \div 2) \o FlattenIn(ss, (lo + hi) \div 2 + 1, hi)

Flatten(ss) == FlattenIn(ss, 1, Len(ss))

\* the k-th smallest element of the set S of numbers
Nth(S, k) == CHOOSE x \in S : Cardinality({y \in S : y < x}) = k - 1

\* first index >= i of s that is not whitespace (Len(s)+1 if none)
SkipSpace(s, i) ==
    CHOOSE j \in i..(Len(s) + 1) :
        /\ j > Len(s) \/ ~IsSpace(s[j])
        /\ \A k \in i..(j - 1) : IsSpace(s[k])

\* first index >= i of s that is whitespace (Len(s)+1 if none)
SkipNonSpace(s, i) ==
    CHOOSE j \in i..(Len(s) + 1) :
        /\ j > Len(s) \/ IsSpace(s[j])
        /\ \A k \in i..(j - 1) : ~IsSpace(s[k])

\* the indices at which a whitespace-delimited word of s starts
WordStarts(s) == {b \in 1..Len(s) : ~IsSpace(s[b]) /\ (b = 1 \/ IsSpace(s[b - 1]))}

\* the words of s that start at the indices `starts`, in order
WordsAt(s, starts) ==
    [k \in 1..Cardinality(starts) |->
        SubSeq(s, Nth(starts, k), SkipNonSpace(s, Nth(starts, k)) - 1)]

\* str.split(): the whitespace-delimited words of s
split(s) == WordsAt(s, WordStarts(s))

\* last index <= i of s that is not whitespace (0 if none)
LastNonSpace(s, i) ==
    CHOOSE j \in 0..i :
        /\ j = 0 \/ ~IsSpace(s[j])
        /\ \A k \in (j + 1)..i : IsSpace(s[k])

\* str.strip()
strip(s) == SubSeq(s, SkipSpace(s, 1), LastNonSpace(s, Len(s)))

\* Python slice s[a:b] for 0 <= a
slice(s, a, b) ==
    LET lo == IF a > Len(s) THEN Len(s) ELSE a
        hi == IF b > Len(s) THEN Len(s) ELSE b
    IN SubSeq(s, lo + 1, hi)

\* ' '.join(ws)
join(ws) ==
    Flatten([k \in 1..(2 * Len(ws) - 1) |->
                IF k % 2 = 1 THEN ws[(k + 1) \div 2] ELSE <<" ">>])

\* str.capitalize()
capitalize(s) == IF s = <<>> THEN <<>>
                 ELSE <<upperc(s[1])>> \o [i \in 1..(Len(s) - 1) |-> casefold(s[i + 1])]

\* the literal w occurs in s at index i, case-sensitively
MatchLit(s, i, w) ==
    /\ i >= 1
    /\ i + Len(w) - 1 <= Len(s)
    /\ \A k \in 1..Len(w) : s[i + k - 1] = w[k]


(***************************************************************************)
(* The re module.  A pattern is a sequence of nodes:                       *)
(*   lit    a literal string                                               *)
(*   set    one character class with its quantifier {min,max}, greedy or   *)
(*          lazy; cs are its literal characters, cls its named classes     *)
(*   alt    a group (?:a1|a2|...) whose alternatives are patterns          *)
(*   cap    the opening / closing parenthesis of capture group id          *)
(*   assert a zero-width assertion: \b, ^, $ or (?<=[...])                 *)
(* Match is Python's backtracking matcher: alternatives are tried in       *)
(* order, greedy quantifiers from the longest run down, lazy ones from     *)
(* the shortest up, and the first complete match wins.                     *)
(***************************************************************************)
Unbounded == 0 - 1

\* characters of the model that are outside \x00-\x7F
NonAscii == {"U+00E9", "U+0130", "U+0307", "U+FB01", "U+2014"}

InClass(c, k) ==
    CASE k = "w"     -> IsUpper(c) \/ IsLower(c) \/ IsDigit(c) \/ c = "_"
                        \/ c \in {"U+00E9", "U+0130", "U+FB01"}
      [] k = "d"     -> IsDigit(c)
      [] k = "s"     -> IsSpace(c)
      [] k = "upper" -> IsUpper(c)
      [] k = "lower" -> IsLower(c)
      [] k = "alpha" -> IsUpper(c) \/ IsLower(c)
      [] k = "ascii" -> c \notin NonAscii
      [] k = "dot"   -> TRUE

InSet(n, c, fl) ==
    LET base(x) == x \in n.cs \/ \E k \in n.cls : InClass(x, k)
    IN (IF fl.i THEN base(c) \/ base(casefold(c)) \/ base(upperc(c))
        ELSE base(c)) # n.neg

\* the dot: any character but a newline, unless re.DOTALL
DotOk(n, c, fl) == ~("dot" \in n.cls) \/ fl.s \/ c # "\n"

\* the literal w occurs in s at index i (under re.IGNORECASE if fl.i)
LitAt(w, s, i, fl) ==
    /\ i + Len(w) - 1 <= Len(s)
    /\ \A k \in 1..Len(w) :
          InSet([cs |-> {w[k]}, cls |-> {}, neg |-> FALSE], s[i + k - 1], fl)

IsWordChar(s, i) == i >= 1 /\ i <= Len(s) /\ InClass(s[i], "w")

Holds(n, s, i, fl) ==
    CASE n.a = "b"      -> IsWordChar(s, i - 1) # IsWordChar(s, i)
      [] n.a = "bol"    -> i = 1 \/ (fl.m /\ s[i - 1] = "\n")
      [] n.a = "eol"    -> \/ i = Len(s) + 1
                           \/ i = Len(s) /\ s[i] = "\n"
                           \/ fl.m /\ i <= Len(s) /\ s[i] = "\n"
      [] n.a = "behind" -> i > 1 /\ s[i - 1] \in n.cs

\* number of consecutive characters from index i that node n accepts
\* (at most n.max of them): the first count at which the run cannot go on
Accepts(n, s, i, fl, c) ==
    /\ i + c <= Len(s)
    /\ (n.max = Unbounded \/ c < n.max)
    /\ InSet(n, s[i + c], fl)
    /\ DotOk(n, s[i + c], fl)

RunLen(n, s, i, fl) ==
    CHOOSE c \in 0..(Len(s) + 1 - i) :
        ~Accepts(n, s, i, fl, c) /\ \A d \in 0..(c - 1) : Accepts(n, s, i, fl, d)

NoGroups == [k \in 1..3 |-> <<0, 0>>]
Fail == [ok |-> FALSE, start |-> 0, end |-> 0, g |-> NoGroups]

\* a capture node records the index at which the group opens or closes
SetGroup(r, n, i) ==
    IF ~r.ok THEN r
    ELSE IF n.open THEN [r EXCEPT !.g[n.id][1] = i]
    ELSE [r EXCEPT !.g[n.id][2] = i]

RECURSIVE Match(_, _, _, _), MatchRun(_, _, _, _, _, _)
RECURSIVE TryCounts(_, _, _, _, _, _, _), TryAlts(_, _, _, _, _, _, _)
Match(nodes, s, i, fl) ==
    IF nodes = <<>> THEN [ok |-> TRUE, start |-> i, end |-> i, g |-> NoGroups]
    ELSE LET n    == Head(nodes)
             rest == Tail(nodes)
         IN CASE n.t = "lit" ->
                   IF LitAt(n.w, s, i, fl) THEN Match(rest, s, i + Len(n.w), fl)
                   ELSE Fail
              [] n.t = "set" -> MatchRun(n, rest, s, i, fl, RunLen(n, s, i, fl))
              [] n.t = "alt" -> TryAlts(n.alts, rest, s, i, fl, 1, Len(n.alts))
              [] n.t = "cap" -> SetGroup(Match(rest, s, i, fl), n, i)
              [] n.t = "assert" ->
                   IF Holds(n, s, i, fl) THEN Match(rest, s, i, fl) ELSE Fail

\* a quantified set that accepts `run` characters at i: a greedy one gives
\* characters back one by one, a lazy one takes them one by one
MatchRun(n, rest, s, i, fl, run) ==
    IF run < n.min THEN Fail
    ELSE IF run = n.min THEN Match(rest, s, i + run, fl)
    ELSE IF n.greedy THEN TryCounts(rest, s, i, fl, run, n.min, 0 - 1)
    ELSE TryCounts(rest, s, i, fl, n.min, run, 1)

\* the counts c, c + step, ..., last are tried in that order; the first one
\* after which the rest of the pattern matches wins
TryCounts(rest, s, i, fl, c, last, step) ==
    IF c = last THEN Match(rest, s, i + c, fl)
    ELSE LET mid == c + step * (((last - c) * step) \div 2)
             r   == TryCounts(rest, s, i, fl, c, mid, step)
         IN IF r.ok THEN r
            ELSE TryCounts(rest, s, i, fl, mid + step, last, step)

\* the alternatives alts[lo..hi] are tried in order; the first one after
\* which the rest of the pattern matches wins
TryAlts(alts, rest, s, i, fl, lo, hi) ==
    IF lo > hi THEN Fail
    ELSE IF lo = hi THEN Match(alts[lo] \o rest, s, i, fl)
    ELSE LET r == TryAlts(alts, rest, s, i, fl, lo, (lo + hi) \div 2)
         IN IF r.ok THEN r
            ELSE TryAlts(alts, rest, s, i, fl, (lo + hi) \div 2 + 1, hi)

\* pattern.match(s) anchored at index i
MatchAt(nodes, s, i, fl) == [Match(nodes, s, i, fl) EXCEPT !.start = i]

\* re.search from index `from`: the leftmost match, or ok = FALSE
OrFail(r) == IF r.ok THEN r ELSE Fail

RECURSIVE SearchIn(_, _, _, _, _)
SearchIn(nodes, s, lo, hi, fl) ==
    IF lo > hi THEN Fail
    ELSE IF lo = hi THEN OrFail(MatchAt(nodes, s, lo, fl))
         ELSE LET mid == (lo + hi) \div 2
                  r   == SearchIn(nodes, s, lo, mid, fl)
              IN IF r.ok THEN r ELSE SearchIn(nodes, s, mid + 1, hi, fl)

Search(nodes, s, from, fl) == SearchIn(nodes, s, from, Len(s) + 1, fl)

\* what re.finditer finds at one start position: the match r, after which
\* the scan goes on at its end (one further after an empty match)
Found(r, from) ==
    IF r.ok THEN [ms |-> <<r>>, from |-> IF r.end = r.start THEN r.end + 1 ELSE r.end]
    ELSE [ms |-> <<>>, from |-> from]

\* re.finditer over the start positions lo..hi when the scan has reached
\* `from`: the successive non-overlapping matches that start in lo..hi, and
\* the position the scan has reached after them
RECURSIVE Scan(_, _, _, _, _, _)
Scan(nodes, s, lo, hi, from, fl) ==
    IF hi < from THEN [ms |-> <<>>, from |-> from]
    ELSE IF lo = hi THEN Found(MatchAt(nodes, s, lo, fl), from)
    ELSE LET a == Scan(nodes, s, lo, (lo + hi) \div 2, from, fl)
             b == Scan(nodes, s, (lo + hi) \div 2 + 1, hi, a.from, fl)
         IN [ms |-> a.ms \o b.ms, from |-> b.from]

finditer(nodes, s, fl) == Scan(nodes, s, 1, Len(s) + 1, 1, fl).ms

\* text of capture group k of match r on s
group(s, r, k) == SubSeq(s, r.g[k][1], r.g[k][2] - 1)

\* the text of s between match k - 1 and match k of ms (from the start of s
\* for the first match, to its end after the last)
Between(ms, k, s) ==
    SubSeq(s, IF k = 1 THEN 1 ELSE ms[k - 1].end,
              IF k > Len(ms) THEN Len(s) ELSE ms[k].start - 1)

\* s with the matches ms replaced by repl
Replace(ms, repl, s) ==
    Flatten([k \in 1..(Len(ms) + 1) |->
                Between(ms, k, s) \o (IF k > Len(ms) THEN <<>> ELSE repl)])

\* pattern.sub(repl, s)
sub(nodes, repl, s, fl) == Replace(finditer(nodes, s, fl), repl, s)

\* s split at the matches ms, group 1 of each match kept between the parts
SplitAt(ms, s) ==
    [k \in 1..(2 * Len(ms) + 1) |->
        IF k % 2 = 1 THEN Between(ms, (k + 1) \div 2, s)
        ELSE group(s, ms[k \div 2], 1)]

\* pattern.split(s) for a pattern with one capture group
re_split(nodes, s, fl) == SplitAt(finditer(nodes, s, fl), s)

\* s split at the matches ms
SplitAt0(ms, s) == [k \in 1..(Len(ms) + 1) |-> Between(ms, k, s)]

\* re.split(pattern, s) for a pattern without capture groups
re_split0(nodes, s, fl) == SplitAt0(finditer(nodes, s, fl), s)

\* flags
NoFlags == [i |-> FALSE, m |-> FALSE, s |-> FALSE]
IGNORECASE == [i |-> TRUE, m |-> FALSE, s |-> FALSE]
MULTILINE == [i |-> FALSE, m |-> TRUE, s |-> FALSE]
IGNORECASE_DOTALL == [i |-> TRUE, m |-> FALSE, s |-> TRUE]

\* pattern constructors
Set(cs, cls, neg, min, max, greedy) ==
    <<[t |-> "set", cs |-> cs, cls |-> cls, neg |-> neg,
       min |-> min, max |-> max, greedy |-> greedy]>>
Ch(c) == Set({c}, {}, FALSE, 1, 1, TRUE)                 \* the literal c
Lit(w) == <<[t |-> "lit", w |-> w]>>                     \* the literal w
Star(cs, cls) == Set(cs, cls, FALSE, 0, Unbounded, TRUE)   \* [..]*
Plus(cs, cls) == Set(cs, cls, FALSE, 1, Unbounded, TRUE)   \* [..]+
Opt(cs, cls) == Set(cs, cls, FALSE, 0, 1, TRUE)            \* [..]?
LazyPlus(cs, cls) == Set(cs, cls, FALSE, 1, Unbounded, FALSE)  \* [..]+?
NotStar(cs) == Set(cs, {}, TRUE, 0, Unbounded, TRUE)       \* [^..]*
NotPlus(cs) == Set(cs, {}, TRUE, 1, Unbounded, TRUE)       \* [^..]+
Alt(alts) == <<[t |-> "alt", alts |-> alts]>>            \* (?:a|b)
Open(k) == <<[t |-> "cap", id |-> k, open |-> TRUE]>>
Close(k) == <<[t |-> "cap", id |-> k, open |-> FALSE]>>
Group(k, p) == Open(k) \o p \o Close(k)                  \* (p)
WordB == <<[t |-> "assert", a |-> "b"]>>                 \* \b
Bol == <<[t |-> "assert", a |-> "bol"]>>                 \* ^
Eol == <<[t |-> "assert", a |-> "eol"]>>                 \* $
Behind(cs) == <<[t |-> "assert", a |-> "behind", cs |-> cs]>>  \* (?<=[..])

(***************************************************************************)
(* Config                                                                  *)
(***************************************************************************)
academic_headers ==
    << <<"A","b","s","t","r","a","c","t">>,
       <<"I","n","t","r","o","d","u","c","t","i","o","n">>,
       <<"M","e","t","h","o","d","s">>,
       <<"M","e","t","h","o","d","o","l","o","g","y">>,
       <<"R","e","s","u","l","t","s">>,
       <<"D","i","s","c","u","s","s","i","o","n">>,
       <<"C","o","n","c","l","u","s","i","o","n">> >>

\* Config.header_pattern:  \n\s*(H1|...|H7)\s*\n
header_pattern ==
    Ch("\n") \o Star({}, {"s"})
    \o Group(1, Alt([h \in 1..Len(academic_headers) |-> Lit(academic_headers[h])]))
    \o Star({}, {"s"}) \o Ch("\n")

\* Config.section_pattern:  ^(H1|...|H7)$
section_pattern ==
    Bol \o Group(1, Alt([h \in 1..Len(academic_headers) |-> Lit(academic_headers[h])]))
    \o Eol

\* self._header_pattern.split(text), compiled with re.IGNORECASE
header_split(s) == re_split(header_pattern, s, IGNORECASE)

\* self._section_pattern.match(section), compiled with re.IGNORECASE
section_match(seg) == MatchAt(section_pattern, seg, 1, IGNORECASE).ok


(***************************************************************************)
(* TextProcessor.clean_text                                                *)
(***************************************************************************)
\* str.lower() of one character; U+0130 lowers to two characters
lowerc(c) == IF c = "U+0130" THEN <<"i", "U+0307">> ELSE <<casefold(c)>>

\* str.lower()
lower(s) == Flatten([k \in 1..Len(s) |-> lowerc(s[k])])

\* Config.cleaning_patterns, in order
cleaning_patterns ==
    << \* \b[\w.-]+?@\w+?\.\w+?\b
       WordB \o LazyPlus({".", "-"}, {"w"}) \o Ch("@") \o LazyPlus({}, {"w"})
       \o Ch(".") \o LazyPlus({}, {"w"}) \o WordB,
       \* \[[^\]]*\]
       Ch("[") \o NotStar({"]"}) \o Ch("]"),
       \* Figure \d+: [^\n]+
       Lit(<<"F","i","g","u","r","e"," ">>) \o Plus({}, {"d"}) \o Lit(<<":"," ">>) \o NotPlus({"\n"}),
       \* Table \d+: [^\n]+
       Lit(<<"T","a","b","l","e"," ">>) \o Plus({}, {"d"}) \o Lit(<<":"," ">>) \o NotPlus({"\n"}),
       \* ^Source:.*$
       Bol \o Lit(<<"S","o","u","r","c","e",":">>) \o Star({}, {"dot"}) \o Eol,
       \* [^\x00-\x7F]+
       Set({}, {"ascii"}, TRUE, 1, Unbounded, TRUE),
       \* \bSee Figure \d+\b
       WordB \o Lit(<<"S","e","e"," ","F","i","g","u","r","e"," ">>) \o Plus({}, {"d"}) \o WordB,
       \* \bEq\.\s*\d+\b
       WordB \o Lit(<<"E","q",".">>) \o Star({}, {"s"}) \o Plus({}, {"d"}) \o WordB,
       \* \b(Table|Fig)\.\s*\d+\b
       WordB \o Group(1, Alt(<<Lit(<<"T","a","b","l","e">>), Lit(<<"F","i","g">>)>>)) \o Ch(".")
       \o Star({}, {"s"}) \o Plus({}, {"d"}) \o WordB,
       \* <[^>]+>
       Ch("<") \o NotPlus({">"}) \o Ch(">") >>

\* for pattern in self._cleaning_patterns: text = pattern.sub('', text),
\* for the patterns ps[lo..hi]; no pattern matches in the empty string, so
\* an emptied text stays empty
RECURSIVE apply_patterns(_, _, _, _), apply_more(_, _, _, _)
apply_patterns(ps, lo, hi, s) ==
    IF s = <<>> THEN <<>>
    ELSE IF lo = hi THEN sub(ps[lo], <<>>, s, MULTILINE)
    ELSE apply_more(apply_patterns(ps, lo, (lo + hi) \div 2, s),
                    ps, (lo + hi) \div 2 + 1, hi)

apply_more(s, ps, lo, hi) == apply_patterns(ps, lo, hi, s)

\* re.sub(r'\s+', ' ', text)
collapse_whitespace(s) ==
    IF s = <<>> THEN <<>> ELSE sub(Plus({}, {"s"}), <<" ">>, s, NoFlags)

\* (a slip: the final .strip() is left out)
clean_text_unstripped(s) ==
    IF s = <<>> THEN <<>>
    ELSE collapse_whitespace(apply_patterns(cleaning_patterns, 1, Len(cleaning_patterns), lower(s)))

clean_text(s) ==
    IF s = <<>> THEN <<>>
    ELSE strip(collapse_whitespace(apply_patterns(cleaning_patterns, 1, Len(cleaning_patterns), lower(s))))

\* clean_text(text) for an Optional[str]: `not text` holds for None as it
\* does for ''
clean_text_optional(a) == IF a.none THEN <<>> ELSE clean_text(a.s)

(***************************************************************************)
(* paper_analyzer.clean_pdf_text                                           *)
(***************************************************************************)
\* control and non-printable characters of the model: [\x00-\x08\x0b...]
ControlChars == {"U+0007"}

\* the ligature table, for the ligatures of the model's alphabet
ligature(c) == IF c = "U+FB01" THEN <<"f", "i">>
               ELSE IF c = "U+2014" THEN <<"-">>
               ELSE <<c>>

\* The steps of clean_pdf_text; none of its patterns matches in the empty
\* string, so each step leaves '' as it is.
\* re.sub(r'>[A-Za-z]+<', '', text)
remove_garbled_tags(s) ==
    IF s = <<>> THEN <<>> ELSE
    sub(Ch(">") \o Plus({}, {"alpha"}) \o Ch("<"), <<>>, s, NoFlags)

\* re.sub(r'[\x00-\x08\x0b\x0c\x0e-\x1f\x7f-\x9f]', '', text)
remove_control_chars(s) ==
    IF s = <<>> THEN <<>> ELSE
    sub(Set(ControlChars, {}, FALSE, 1, 1, TRUE), <<>>, s, NoFlags)

\* text.replace(lig, replacement) for each ligature
replace_ligatures(s) == Flatten([k \in 1..Len(s) |-> ligature(s[k])])

\* re.sub(r'\s[<>]\s', ' ', text)
remove_isolated_brackets(s) ==
    IF s = <<>> THEN <<>> ELSE
    sub(Set({}, {"s"}, FALSE, 1, 1, TRUE) \o Set({"<", ">"}, {}, FALSE, 1, 1, TRUE)
        \o Set({}, {"s"}, FALSE, 1, 1, TRUE), <<" ">>, s, NoFlags)

\* re.sub(r'<[^>]{0,3}>', '', text)
remove_short_tags(s) ==
    IF s = <<>> THEN <<>> ELSE
    sub(Ch("<") \o Set({">"}, {}, TRUE, 0, 3, TRUE) \o Ch(">"), <<>>, s, NoFlags)

clean_pdf_text(s) ==
    IF s = <<>> THEN <<>>
    ELSE strip(remove_short_tags(remove_isolated_brackets(collapse_whitespace(
             replace_ligatures(remove_control_chars(remove_garbled_tags(s)))))))

(***************************************************************************)
(* TextProcessor.create_chunks                                             *)
(***************************************************************************)
TextChunk(content, start_offset, end_offset, section) ==
    [content |-> content, start_offset |-> start_offset,
     end_offset |-> end_offset, section |-> section]

\* (a slip: the list is replaced by the new chunk, not appended to)
flush_replacing(cs, words, offset, section) ==
    LET chunk_content == strip(join(words))
    IN <<TextChunk(chunk_content, offset,
                   offset + Len(chunk_content), section)>>

\* chunks.append(TextChunk(' '.join(words).strip(), offset, offset+len, section))
flush(cs, words, offset, section) ==
    LET chunk_content == strip(join(words))
    IN Append(cs, TextChunk(chunk_content, offset,
                            offset + Len(chunk_content), section))

\* (a slip: current_offset = len(section) + 1)
next_offset_reset(offset, section) == Len(section) + 1

\* current_offset += len(section) + 1
next_offset(offset, section) == offset + Len(section) + 1

\* (a slip: the running length is left out of the comparison)
exceeds_word_only(length, word_len, size) == word_len > size

\* if current_length + word_len > self.config.chunk_size
exceeds(length, word_len, size) == length + word_len > size

\* the inner loop  for word in words  over one non-header segment;
\* st = [w: current_chunk_words, len: current_length, c: chunks]
RECURSIVE pack_words(_, _, _, _, _)
pack_words(words, st, offset, section, size) ==
    IF words = <<>> THEN st
    ELSE LET word     == Head(words)
             word_len == Len(word) + 1
         IN IF exceeds(st.len, word_len, size)
            THEN pack_words(Tail(words),
                     [w   |-> <<word>>,
                      len |-> word_len,
                      c   |-> IF st.w # <<>>
                              THEN flush(st.c, st.w, offset, section)
                              ELSE st.c],
                     offset, section, size)
            ELSE pack_words(Tail(words),
                     [w   |-> Append(st.w, word),
                      len |-> st.len + word_len,
                      c   |-> st.c],
                     offset, section, size)

(***************************************************************************)
(* PaperAnalyzer.extract_sections                                          *)
(***************************************************************************)
SECTION_PATTERNS ==
    << \* (r'abstract', 'Abstract')
       [pattern |-> Lit(<<"a", "b", "s", "t", "r", "a", "c", "t">>),
        title |-> <<"A", "b", "s", "t", "r", "a", "c", "t">>],
       \* (r'introduction', 'Introduction')
       [pattern |-> Lit(<<"i", "n", "t", "r", "o", "d", "u", "c", "t", "i", "o", "n">>),
        title |-> <<"I", "n", "t", "r", "o", "d", "u", "c", "t", "i", "o", "n">>],
       \* (r'related\s*work', 'Related Work')
       [pattern |-> Lit(<<"r", "e", "l", "a", "t", "e", "d">>) \o Star({}, {"s"}) \o Lit(<<"w", "o", "r", "k">>),
        title |-> <<"R", "e", "l", "a", "t", "e", "d", " ", "W", "o", "r", "k">>],
       \* (r'background', 'Background')
       [pattern |-> Lit(<<"b", "a", "c", "k", "g", "r", "o", "u", "n", "d">>),
        title |-> <<"B", "a", "c", "k", "g", "r", "o", "u", "n", "d">>],
       \* (r'literature\s*review', 'Literature Review')
       [pattern |-> Lit(<<"l", "i", "t", "e", "r", "a", "t", "u", "r", "e">>) \o Star({}, {"s"}) \o Lit(<<"r", "e", "v", "i", "e", "w">>),
        title |-> <<"L", "i", "t", "e", "r", "a", "t", "u", "r", "e", " ", "R", "e", "v", "i", "e", "w">>],
       \* (r'method(?:ology|s)?', 'Methodology')
       [pattern |-> Lit(<<"m", "e", "t", "h", "o", "d">>) \o Alt(<<Alt(<<Lit(<<"o", "l", "o", "g", "y">>), Lit(<<"s">>)>>), <<>>>>),
        title |-> <<"M", "e", "t", "h", "o", "d", "o", "l", "o", "g", "y">>],
       \* (r'approach', 'Approach')
       [pattern |-> Lit(<<"a", "p", "p", "r", "o", "a", "c", "h">>),
        title |-> <<"A", "p", "p", "r", "o", "a", "c", "h">>],
       \* (r'experiment(?:s|al)?(?:\s*setup)?', 'Experiments')
       [pattern |-> Lit(<<"e", "x", "p", "e", "r", "i", "m", "e", "n", "t">>) \o Alt(<<Alt(<<Lit(<<"s">>), Lit(<<"a", "l">>)>>), <<>>>>)
          \o Alt(<<Star({}, {"s"}) \o Lit(<<"s", "e", "t", "u", "p">>), <<>>>>),
        title |-> <<"E", "x", "p", "e", "r", "i", "m", "e", "n", "t", "s">>],
       \* (r'result(?:s)?', 'Results')
       [pattern |-> Lit(<<"r", "e", "s", "u", "l", "t">>) \o Alt(<<Lit(<<"s">>), <<>>>>),
        title |-> <<"R", "e", "s", "u", "l", "t", "s">>],
       \* (r'evaluation', 'Evaluation')
       [pattern |-> Lit(<<"e", "v", "a", "l", "u", "a", "t", "i", "o", "n">>),
        title |-> <<"E", "v", "a", "l", "u", "a", "t", "i", "o", "n">>],
       \* (r'discussion', 'Discussion')
       [pattern |-> Lit(<<"d", "i", "s", "c", "u", "s", "s", "i", "o", "n">>),
        title |-> <<"D", "i", "s", "c", "u", "s", "s", "i", "o", "n">>],
       \* (r'analysis', 'Analysis')
       [pattern |-> Lit(<<"a", "n", "a", "l", "y", "s", "i", "s">>),
        title |-> <<"A", "n", "a", "l", "y", "s", "i", "s">>],
       \* (r'conclusion(?:s)?', 'Conclusion')
       [pattern |-> Lit(<<"c", "o", "n", "c", "l", "u", "s", "i", "o", "n">>) \o Alt(<<Lit(<<"s">>), <<>>>>),
        title |-> <<"C", "o", "n", "c", "l", "u", "s", "i", "o", "n">>],
       \* (r'future\s*work', 'Future Work')
       [pattern |-> Lit(<<"f", "u", "t", "u", "r", "e">>) \o Star({}, {"s"}) \o Lit(<<"w", "o", "r", "k">>),
        title |-> <<"F", "u", "t", "u", "r", "e", " ", "W", "o", "r", "k">>],
       \* (r'acknowledge?ment(?:s)?', 'Acknowledgments')
       [pattern |-> Lit(<<"a", "c", "k", "n", "o", "w", "l", "e", "d", "g">>) \o Opt({"e"}, {}) \o Lit(<<"m", "e", "n", "t">>) \o Alt(<<Lit(<<"s">>), <<>>>>),
        title |-> <<"A", "c", "k", "n", "o", "w", "l", "e", "d", "g", "m", "e", "n", "t", "s">>],
       \* (r'reference(?:s)?', 'References')
       [pattern |-> Lit(<<"r", "e", "f", "e", "r", "e", "n", "c", "e">>) \o Alt(<<Lit(<<"s">>), <<>>>>),
        title |-> <<"R", "e", "f", "e", "r", "e", "n", "c", "e", "s">>],
       \* (r'appendix', 'Appendix')
       [pattern |-> Lit(<<"a", "p", "p", "e", "n", "d", "i", "x">>),
        title |-> <<"A", "p", "p", "e", "n", "d", "i", "x">>] >>

\* rf'(?:^|\n)\s*(?:[\dIVXivx]+\.?\s*)?({pattern})\s*(?:\n|$)'
section_regex(pattern) ==
    Alt(<<Bol, Ch("\n")>>) \o Star({}, {"s"})
    \o Alt(<<Set({"I", "V", "X", "i", "v", "x"}, {"d"}, FALSE, 1, Unbounded, TRUE)
             \o Opt({"."}, {}) \o Star({}, {"s"}),
             <<>>>>)
    \o Group(1, pattern) \o Star({}, {"s"}) \o Alt(<<Ch("\n"), Eol>>)

\* the loop over SECTION_PATTERNS that fills section_matches;
\* start is match.start(), a Python offset into text_lower
section_matches_of(ms, section_title, text_lower) ==
    [m \in 1..Len(ms) |->
        [title |-> section_title,
         start |-> ms[m].start - 1,
         matched |-> group(text_lower, ms[m], 1)]]

\* the matches of every pattern, in the order of SECTION_PATTERNS
find_section_matches(text_lower) ==
    Flatten([k \in 1..Len(SECTION_PATTERNS) |->
                section_matches_of(finditer(section_regex(SECTION_PATTERNS[k].pattern),
                                            text_lower, IGNORECASE),
                                   SECTION_PATTERNS[k].title, text_lower)])

\* (a slip: the matches are left in pattern order)
unsorted(ms) == ms

\* section_matches.sort(key=lambda x: x['start']): a stable sort
\* match k comes before match j: a smaller start, or the same and met first
sort_by_start(ms) ==
    [r \in 1..Len(ms) |->
        ms[CHOOSE k \in 1..Len(ms) :
              Cardinality({j \in 1..Len(ms) :
                              \/ ms[j].start < ms[k].start
                              \/ ms[j].start = ms[k].start /\ j < k}) = r - 1]]

\* str.replace(' ', '_')
underscore(s) == [k \in 1..Len(s) |-> IF s[k] = " " THEN "_" ELSE s[k]]

CharsPerPage == 3000
ContentLimit == 2000

\* max(1, start // 3000 + 1)
page_of(start) == IF (start \div CharsPerPage) + 1 < 1 THEN 1
                  ELSE (start \div CharsPerPage) + 1

Section(id, title, content, page, start_pos, end_pos) ==
    [id |-> id, title |-> title, content |-> content, page |-> page,
     start_pos |-> start_pos, end_pos |-> end_pos, progress |-> 0]

\* the loop over section_matches, lines 199-216
sections_of(t, section_matches) ==
    [i \in 1..Len(section_matches) |->
        LET start == section_matches[i].start
            end   == IF i + 1 <= Len(section_matches)
                     THEN section_matches[i + 1].start
                     ELSE Len(t)
        IN Section(underscore(lower(section_matches[i].title)),
                   section_matches[i].title,
                   slice(strip(slice(t, start, end)), 0, ContentLimit),
                   page_of(start), start, end)]

\* lines 218-229: without any section the document is one section
or_full_document(sections_found, t) ==
    IF sections_found # <<>> THEN sections_found
    ELSE <<Section(<<"d", "o", "c", "u", "m", "e", "n", "t">>, <<"F", "u", "l", "l", " ", "D", "o", "c", "u", "m", "e", "n", "t">>, slice(t, 0, ContentLimit),
                   1, 0, Len(t))>>

extract_sections(t) ==
    or_full_document(sections_of(t, sort_by_start(find_section_matches(lower(t)))), t)

(***************************************************************************)
(* PaperAnalyzer.extract_figures_tables_equations                          *)
(***************************************************************************)
\* str(n) for n >= 0
RECURSIVE str_int(_)
str_int(n) ==
    LET d == <<"0", "1", "2", "3", "4", "5", "6", "7", "8", "9">>[(n % 10) + 1]
    IN IF n < 10 THEN <<d>> ELSE Append(str_int(n \div 10), d)

\* (?:Figure|Fig\.?)
FigureWord == Alt(<<Lit(<<"F", "i", "g", "u", "r", "e">>), Lit(<<"F", "i", "g">>) \o Opt({"."}, {})>>)

fig_patterns ==
    << \* (?:Figure|Fig\.?)\s*(\d+)[:\.]?\s*([^\n]+)
       FigureWord \o Star({}, {"s"}) \o Group(1, Plus({}, {"d"}))
       \o Opt({":", "."}, {}) \o Star({}, {"s"}) \o Group(2, NotPlus({"\n"})),
       \* (?:Figure|Fig\.?)\s*(\d+)
       FigureWord \o Star({}, {"s"}) \o Group(1, Plus({}, {"d"})) >>

table_patterns ==
    << \* (?:Table)\s*(\d+)[:\.]?\s*([^\n]+)
       Lit(<<"T", "a", "b", "l", "e">>) \o Star({}, {"s"}) \o Group(1, Plus({}, {"d"}))
       \o Opt({":", "."}, {}) \o Star({}, {"s"}) \o Group(2, NotPlus({"\n"})),
       \* (?:Table)\s*(\d+)
       Lit(<<"T", "a", "b", "l", "e">>) \o Star({}, {"s"}) \o Group(1, Plus({}, {"d"})) >>

eq_patterns ==
    << \* (?:Equation|Eq\.?)\s*[(\[]?(\d+)[)\]]?
       Alt(<<Lit(<<"E", "q", "u", "a", "t", "i", "o", "n">>), Lit(<<"E", "q">>) \o Opt({"."}, {})>>) \o Star({}, {"s"})
       \o Opt({"(", "["}, {}) \o Group(1, Plus({}, {"d"})) \o Opt({")", "]"}, {}),
       \* \$\$([^$]+)\$\$
       Lit(<<"$", "$">>) \o Group(1, NotPlus({"$"})) \o Lit(<<"$", "$">>),
       \* \\\[([^\]]+)\\\]
       Lit(<<"\\", "[">>) \o Group(1, NotPlus({"]"})) \o Lit(<<"\\", "]">>) >>

CaptionLimit == 100
EquationLimit == 200
MaxItems == 20

Figure(id, type, title, caption, page, content) ==
    [id |-> id, type |-> type, title |-> title, caption |-> caption,
     page |-> page, content |-> content]

\* the items appended for the matches ms of figure or table pattern k (the
\* second pattern of each list has no caption group); ids are given later
caption_figures(ms, k, t, type, word) ==
    [m \in 1..Len(ms) |->
        LET num   == group(t, ms[m], 1)
            title == word \o <<" ">> \o num
            caption == IF k = 1 THEN strip(group(t, ms[m], 2)) ELSE title
        IN Figure(0, type, title, slice(caption, 0, CaptionLimit),
                  page_of(ms[m].start - 1),
                  SubSeq(t, ms[m].start, ms[m].end - 1))]

\* the items one figure or table pattern appends (pattern k of ps)
captioned_items(ps, k, t, type, word) ==
    caption_figures(finditer(ps[k], t, IGNORECASE), k, t, type, word)

\* the items appended for the matches ms of an equation pattern
equation_figures(ms, t) ==
    [m \in 1..Len(ms) |->
        Figure(0, "equation", <<>>, <<"M", "a", "t", "h", "e", "m", "a", "t", "i", "c", "a", "l", " ", "e", "x", "p", "r", "e", "s", "s", "i", "o", "n">>,
               page_of(ms[m].start - 1),
               slice(group(t, ms[m], 1), 0, EquationLimit))]

\* the items one equation pattern appends
equation_items(k, t) == equation_figures(finditer(eq_patterns[k], t, NoFlags), t)

\* item_id counts the appended items from 1
number_items(found) ==
    [i \in 1..Len(found) |->
        [found[i] EXCEPT
           !.id = i,
           !.title = IF found[i].type = "equation"
                     THEN <<"E", "q", "u", "a", "t", "i", "o", "n", " ">> \o str_int(i)
                     ELSE @]]

extract_figures_tables_equations(t) ==
    slice(number_items(captioned_items(fig_patterns, 1, t, "figure", <<"F", "i", "g", "u", "r", "e">>)
                       \o captioned_items(fig_patterns, 2, t, "figure", <<"F", "i", "g", "u", "r", "e">>)
                       \o captioned_items(table_patterns, 1, t, "table", <<"T", "a", "b", "l", "e">>)
                       \o captioned_items(table_patterns, 2, t, "table", <<"T", "a", "b", "l", "e">>)
                       \o equation_items(1, t) \o equation_items(2, t)
                       \o equation_items(3, t)),
          0, MaxItems)

(***************************************************************************)
(* PaperAnalyzer.extract_technical_terms                                   *)
(***************************************************************************)
\* the known terms, in source order; the code holds them in a set
COMMON_TECHNICAL_TERMS ==
    <<
       <<"t","r","a","n","s","f","o","r","m","e","r">>,
       <<"a","t","t","e","n","t","i","o","n">>,
       <<"e","m","b","e","d","d","i","n","g">>,
       <<"e","n","c","o","d","e","r">>, <<"d","e","c","o","d","e","r">>,
       <<"n","e","u","r","a","l"," ","n","e","t","w","o","r","k">>,
       <<"d","e","e","p"," ","l","e","a","r","n","i","n","g">>,
       <<"m","a","c","h","i","n","e"," ","l","e","a","r","n","i","n","g">>,
       <<"n","l","p">>, <<"b","e","r","t">>, <<"g","p","t">>,
       <<"l","s","t","m">>, <<"r","n","n">>, <<"c","n","n">>, <<"g","a","n">>,
       <<"v","a","e">>,
       <<"g","r","a","d","i","e","n","t"," ","d","e","s","c","e","n","t">>,
       <<"b","a","c","k","p","r","o","p","a","g","a","t","i","o","n">>,
       <<"o","p","t","i","m","i","z","a","t","i","o","n">>,
       <<"l","o","s","s"," ","f","u","n","c","t","i","o","n">>,
       <<"s","o","f","t","m","a","x">>, <<"r","e","l","u">>,
       <<"s","i","g","m","o","i","d">>,
       <<"a","c","t","i","v","a","t","i","o","n"," ","f","u","n","c","t","i","o","n">>,
       <<"f","i","n","e","-","t","u","n","i","n","g">>,
       <<"p","r","e","-","t","r","a","i","n","i","n","g">>,
       <<"t","r","a","n","s","f","e","r"," ","l","e","a","r","n","i","n","g">>,
       <<"t","o","k","e","n","i","z","a","t","i","o","n">>,
       <<"v","o","c","a","b","u","l","a","r","y">>,
       <<"c","o","r","p","u","s">>, <<"p","r","e","c","i","s","i","o","n">>,
       <<"r","e","c","a","l","l">>, <<"f","1"," ","s","c","o","r","e">>,
       <<"a","c","c","u","r","a","c","y">>, <<"b","l","e","u">>,
       <<"h","y","p","e","r","p","a","r","a","m","e","t","e","r">>,
       <<"e","p","o","c","h">>, <<"b","a","t","c","h"," ","s","i","z","e">>,
       <<"l","e","a","r","n","i","n","g"," ","r","a","t","e">>,
       <<"o","v","e","r","f","i","t","t","i","n","g">>,
       <<"u","n","d","e","r","f","i","t","t","i","n","g">>,
       <<"r","e","g","u","l","a","r","i","z","a","t","i","o","n">>,
       <<"d","r","o","p","o","u","t">>,
       <<"c","o","n","v","o","l","u","t","i","o","n">>,
       <<"p","o","o","l","i","n","g">>, <<"k","e","r","n","e","l">>,
       <<"s","t","r","i","d","e">>,
       <<"s","e","l","f","-","a","t","t","e","n","t","i","o","n">>,
       <<"m","u","l","t","i","-","h","e","a","d"," ","a","t","t","e","n","t","i","o","n">>,
       <<"p","o","s","i","t","i","o","n","a","l"," ","e","n","c","o","d","i","n","g">>,
       <<"l","a","y","e","r"," ","n","o","r","m","a","l","i","z","a","t","i","o","n">>,
       <<"b","a","t","c","h"," ","n","o","r","m","a","l","i","z","a","t","i","o","n">>,
       <<"c","r","o","s","s","-","e","n","t","r","o","p","y">>,
       <<"k","l"," ","d","i","v","e","r","g","e","n","c","e">>,
       <<"m","s","e">>, <<"m","a","e">>, <<"a","d","a","m">>, <<"s","g","d">>,
       <<"m","o","m","e","n","t","u","m">>,
       <<"s","c","h","e","d","u","l","e","r">>,
       <<"i","n","f","e","r","e","n","c","e">>,
       <<"t","r","a","i","n","i","n","g">>,
       <<"v","a","l","i","d","a","t","i","o","n">>,
       <<"t","e","s","t"," ","s","e","t">>,
       <<"b","e","n","c","h","m","a","r","k">>,
       <<"b","a","s","e","l","i","n","e">>,
       <<"s","t","a","t","e","-","o","f","-","t","h","e","-","a","r","t">>,
       <<"s","o","t","a">>,
       <<"a","b","l","a","t","i","o","n"," ","s","t","u","d","y">>,
       <<"c","a","s","e"," ","s","t","u","d","y">>,
       <<"e","m","p","i","r","i","c","a","l">>, <<"l","a","t","e","n","t">>,
       <<"r","e","p","r","e","s","e","n","t","a","t","i","o","n">>,
       <<"f","e","a","t","u","r","e">>,
       <<"d","i","m","e","n","s","i","o","n">>,
       <<"s","e","m","a","n","t","i","c">>,
       <<"s","y","n","t","a","c","t","i","c">>,
       <<"c","o","n","t","e","x","t","u","a","l">>,
       <<"s","u","p","e","r","v","i","s","e","d">>,
       <<"u","n","s","u","p","e","r","v","i","s","e","d">>,
       <<"s","e","m","i","-","s","u","p","e","r","v","i","s","e","d">>,
       <<"r","e","i","n","f","o","r","c","e","m","e","n","t">>,
       <<"c","l","a","s","s","i","f","i","c","a","t","i","o","n">>,
       <<"r","e","g","r","e","s","s","i","o","n">>,
       <<"c","l","u","s","t","e","r","i","n","g">>,
       <<"s","e","g","m","e","n","t","a","t","i","o","n">>,
       <<"r","e","t","r","i","e","v","a","l">>,
       <<"g","e","n","e","r","a","t","i","o","n">>,
       <<"s","u","m","m","a","r","i","z","a","t","i","o","n">>,
       <<"t","r","a","n","s","l","a","t","i","o","n">> >>

AcronymStoplist == {<<"T", "H", "E">>, <<"A", "N", "D">>, <<"F", "O", "R">>, <<"W", "I", "T", "H">>, <<"F", "R", "O", "M">>, <<"T", "H", "I", "S">>, <<"T", "H", "A", "T">>, <<"E", "A", "C", "H">>}

MostCommon == 10
TopN == 20
MinContextLen == 20
ContextLimit == 200
ContextCut == 150

\* rf'\b{re.escape(term)}\b'
term_regex(term) == WordB \o Lit(term) \o WordB

\* len(re.findall(rf'\b{re.escape(term)}\b', text_lower))
term_count(term, text_lower) == Len(finditer(term_regex(term), text_lower, NoFlags))

\* the known terms that occur in the text: the keys of term_counts
found_terms(t) ==
    LET text_lower == lower(clean_pdf_text(t))
    IN {k \in 1..Len(COMMON_TECHNICAL_TERMS) :
          term_count(COMMON_TECHNICAL_TERMS[k], text_lower) > 0}

\* the orders in which iterating the set can meet the terms of S
IterationOrders(S) ==
    {o \in [1..Cardinality(S) -> S] : \A i, k \in DOMAIN o : i # k => o[i] # o[k]}

\* the indices at which an element of xs occurs for the first time
FirstOccurrences(xs) == {k \in 1..Len(xs) : \A j \in 1..(k - 1) : xs[j] # xs[k]}

\* Counter(acronyms): the distinct elements in first-occurrence order with
\* their counts
Counter(xs) ==
    [j \in 1..Cardinality({xs[k] : k \in 1..Len(xs)}) |->
        [term  |-> xs[Nth(FirstOccurrences(xs), j)],
         count |-> Cardinality({k \in 1..Len(xs) : xs[k] = xs[Nth(FirstOccurrences(xs), j)]})]]

\* sort(key=count, reverse=True): a stable sort by descending count
sort_by_count(xs) ==
    [r \in 1..Len(xs) |->
        xs[CHOOSE k \in 1..Len(xs) :
              Cardinality({j \in 1..Len(xs) :
                              \/ xs[j].count > xs[k].count
                              \/ xs[j].count = xs[k].count /\ j < k}) = r - 1]]

\* str.islower()
islower(s) == /\ \E k \in 1..Len(s) : IsLower(s[k])
              /\ \A k \in 1..Len(s) : ~IsUpper(s[k])

\* str.title()
title(s) ==
    [k \in 1..Len(s) |->
        IF k = 1 \/ ~(IsUpper(s[k - 1]) \/ IsLower(s[k - 1]))
        THEN upperc(s[k]) ELSE casefold(s[k])]

\* the sentence splitter  (?<=[.!?])\s+
sentence_split(s) == re_split0(Behind({".", "!", "?"}) \o Plus({}, {"s"}), s, NoFlags)

\* str.rfind(' '), as a Python offset (-1 if there is none)
rfind_space(s) == LET P == {k \in 1..Len(s) : s[k] = " "}
                  IN IF P = {} THEN 0 - 1 ELSE Max(P) - 1

\* lines 275-281: clean_sentence if the sentence holds the term and looks
\* like a valid sentence, else nothing
usable_context(clean_sentence, sentence, term) ==
    IF /\ Search(term_regex(term), sentence, 1, IGNORECASE).ok
       /\ Len(clean_sentence) > MinContextLen
       /\ IsUpper(clean_sentence[1])
    THEN clean_sentence
    ELSE <<>>

\* the first of the contexts cs that is not empty, if any
first_nonempty(cs) ==
    IF \A k \in 1..Len(cs) : cs[k] = <<>> THEN <<>>
    ELSE cs[Min({k \in 1..Len(cs) : cs[k] # <<>>})]

\* the context sentence of a term, lines 272-281
first_context(sentences, term) ==
    first_nonempty([k \in 1..Len(sentences) |->
                      usable_context(clean_pdf_text(sentences[k]), sentences[k], term)])

\* lines 287-290: a context of 200 characters is cut at its last space
cut_at_word(context) ==
    IF Len(context) = ContextLimit /\ rfind_space(context) > ContextCut
    THEN slice(context, 0, rfind_space(context)) \o <<".", ".", ".">>
    ELSE context

\* lines 284-296
truncate_context(context) ==
    IF context = <<>> THEN <<"T", "e", "r", "m", " ", "f", "o", "u", "n", "d", " ", "i", "n", " ", "d", "o", "c", "u", "m", "e", "n", "t">>
    ELSE cut_at_word(slice(context, 0, ContextLimit))

context_of(term, cleaned_text) ==
    truncate_context(first_context(sentence_split(cleaned_text), term))

Term(term, frequency, context) ==
    [term |-> term, definition |-> <<>>, frequency |-> frequency, context |-> context]

\* term_counts, lines 250-254, as the list all_terms starts from
term_counts(order, text_lower) ==
    [i \in 1..Len(order) |->
        [term  |-> COMMON_TECHNICAL_TERMS[order[i]],
         count |-> term_count(COMMON_TECHNICAL_TERMS[order[i]], text_lower)]]

\* the texts of group 1 of the matches ms
group_texts(ms, s) == [m \in 1..Len(ms) |-> group(s, ms[m], 1)]

\* re.findall(r'\b([A-Z]{2,6})\b', cleaned_text)
acronyms(cleaned_text) ==
    group_texts(finditer(WordB \o Group(1, Set({}, {"upper"}, FALSE, 2, 6, TRUE)) \o WordB,
                         cleaned_text, NoFlags),
                cleaned_text)

\* lines 258-264: the ten most common acronyms outside the stoplist
acronym_counts(cleaned_text) ==
    SelectSeq(slice(sort_by_count(Counter(acronyms(cleaned_text))), 0, MostCommon),
              LAMBDA a : a.term \notin AcronymStoplist)

\* lines 269-297: one Term per entry of all_terms[:top_n]
make_terms(top, cleaned_text) ==
    [i \in 1..Len(top) |->
        Term(IF islower(top[i].term) THEN title(top[i].term) ELSE top[i].term,
             top[i].count,
             context_of(top[i].term, cleaned_text))]

\* lines 246-297 on the cleaned text
terms_of(cleaned_text, order) ==
    make_terms(slice(sort_by_count(term_counts(order, lower(cleaned_text))
                                   \o acronym_counts(cleaned_text)),
                     0, TopN),
               cleaned_text)

\* extract_technical_terms(t, top_n = 20); order is the order in which the
\* iteration over the set COMMON_TECHNICAL_TERMS meets the terms found
extract_technical_terms(t, order) == terms_of(clean_pdf_text(t), order)

(***************************************************************************)
(* DocumentAnalyzer._fix_reversed_text and _extract_summary                *)
(***************************************************************************)
common_words ==
    {
       <<"t","h","e">>, <<"a","n","d">>, <<"f","o","r">>, <<"a","r","e">>,
       <<"b","u","t">>, <<"n","o","t">>, <<"y","o","u">>, <<"a","l","l">>,
       <<"c","a","n">>, <<"h","a","d">>, <<"w","a","s">>, <<"o","n","e">>,
       <<"o","u","r">>, <<"h","a","s">>, <<"h","i","s">>, <<"h","o","w">>,
       <<"i","t","s">>, <<"m","a","y">>, <<"n","e","w">>, <<"n","o","w">>,
       <<"s","e","e">>, <<"w","a","y">>, <<"w","h","o">>, <<"d","i","d">>,
       <<"g","e","t">>, <<"s","a","y">>, <<"s","h","e">>, <<"u","s","e">>,
       <<"w","i","t","h">>, <<"t","h","i","s">>, <<"t","h","a","t">>,
       <<"h","a","v","e">>, <<"f","r","o","m">>, <<"t","h","e","y">>,
       <<"b","e","e","n">>, <<"e","a","c","h">>, <<"w","h","i","c","h">>,
       <<"t","h","e","i","r">>, <<"w","i","l","l">>, <<"o","t","h","e","r">>,
       <<"a","b","o","u","t">>, <<"m","a","n","y">>, <<"t","h","e","n">>,
       <<"t","h","e","m">>, <<"t","h","e","s","e">>, <<"s","o","m","e">>,
       <<"w","o","u","l","d">>, <<"m","a","k","e">>, <<"l","i","k","e">>,
       <<"m","o","d","e","l">>, <<"d","a","t","a">>, <<"i","n","p","u","t">>,
       <<"o","u","t","p","u","t">>, <<"m","e","t","h","o","d">>,
       <<"p","a","p","e","r">> }

MinWords == 10
SampleSize == 80
MinReversedHits == 3

\* w[::-1]
reversed(w) == [k \in 1..Len(w) |-> w[Len(w) + 1 - k]]

hits(ws) == Cardinality({k \in 1..Len(ws) : lower(ws[k]) \in common_words})

\* (a slip: the factor two of the comparison is left out)
_fix_reversed_text_majority(t) ==
    LET words  == split(t)
        sample == slice(words, 0, IF Len(words) < SampleSize THEN Len(words)
                                  ELSE SampleSize)
        normal_hits   == hits(sample)
        reversed_hits == hits([k \in 1..Len(sample) |-> reversed(sample[k])])
    IN IF Len(words) < MinWords THEN t
       ELSE IF reversed_hits > normal_hits /\ reversed_hits > MinReversedHits
            THEN join([k \in 1..Len(words) |-> reversed(words[k])])
            ELSE t

_fix_reversed_text(t) ==
    LET words  == split(t)
        sample == slice(words, 0, IF Len(words) < SampleSize THEN Len(words)
                                  ELSE SampleSize)
        normal_hits   == hits(sample)
        reversed_hits == hits([k \in 1..Len(sample) |-> reversed(sample[k])])
    IN IF Len(words) < MinWords THEN t
       ELSE IF reversed_hits > normal_hits * 2 /\ reversed_hits > MinReversedHits
            THEN join([k \in 1..Len(words) |-> reversed(words[k])])
            ELSE t

\* (?:abstract|summary)
AbstractWord == Alt(<<Lit(<<"a", "b", "s", "t", "r", "a", "c", "t">>), Lit(<<"s", "u", "m", "m", "a", "r", "y">>)>>)

\* (.*?)
LazyAny(k) == Group(k, Set({}, {"dot"}, FALSE, 0, Unbounded, FALSE))

\* (?:\n\s*\n)
BlankLine == Ch("\n") \o Star({}, {"s"}) \o Ch("\n")

abstract_patterns ==
    << \* (?:abstract|summary)\s*[:\n]\s*(.*?)(?:\n\s*(?:introduction|keywords|1\.|1\s|I\.))
       AbstractWord \o Star({}, {"s"}) \o Set({":", "\n"}, {}, FALSE, 1, 1, TRUE)
       \o Star({}, {"s"}) \o LazyAny(1) \o Ch("\n") \o Star({}, {"s"})
       \o Alt(<<Lit(<<"i", "n", "t", "r", "o", "d", "u", "c", "t", "i", "o", "n">>), Lit(<<"k", "e", "y", "w", "o", "r", "d", "s">>), Lit(<<"1", ".">>),
                Ch("1") \o Set({}, {"s"}, FALSE, 1, 1, TRUE), Lit(<<"I", ".">>)>>),
       \* (?:abstract|summary)\s*\n+(.*?)(?:\n\s*\n)
       AbstractWord \o Star({}, {"s"}) \o Plus({"\n"}, {}) \o LazyAny(1) \o BlankLine,
       \* (?:^|\n)\s*abstract\s*\n(.*?)(?:\n\s*\n)
       Alt(<<Bol, Ch("\n")>>) \o Star({}, {"s"}) \o Lit(<<"a", "b", "s", "t", "r", "a", "c", "t">>) \o Star({}, {"s"})
       \o Ch("\n") \o LazyAny(1) \o BlankLine >>

MaxSentences == 5
MinAbstractLen == 50
MinAbstractSentence == 20
MinSentence == 30

\* [s.strip() for s in sentences if len(s.strip()) > n]
long_sentences(ss, n) ==
    LET stripped == [k \in 1..Len(ss) |-> strip(ss[k])]
    IN SelectSeq(stripped, LAMBDA x : Len(x) > n)

\* the loop over abstract_patterns from pattern k on, then the fallback
RECURSIVE summary_from(_, _)
summary_from(t, k) ==
    IF k > Len(abstract_patterns)
    THEN join(slice(long_sentences(sentence_split(t), MinSentence), 0, MaxSentences))
    ELSE LET abstract_match == Search(abstract_patterns[k], t, 1, IGNORECASE_DOTALL)
             abstract_text  == strip(group(t, abstract_match, 1))
             sentences == long_sentences(sentence_split(abstract_text),
                                         MinAbstractSentence)
         IN IF /\ abstract_match.ok
               /\ Len(abstract_text) > MinAbstractLen
               /\ sentences # <<>>
            THEN join(slice(sentences, 0, MaxSentences))
            ELSE summary_from(t, k + 1)

_extract_summary(t) == summary_from(_fix_reversed_text(t), 1)

(***************************************************************************)
(* PaperAnalyzer.extract_citations and analyze_paper                       *)
(***************************************************************************)
\* [A-Z][a-z]+(?:\s+et\s+al\.?)   (the group is optional in two patterns)
AuthorName == Set({}, {"upper"}, FALSE, 1, 1, TRUE) \o Plus({}, {"lower"})
EtAl == Plus({}, {"s"}) \o Lit(<<"e", "t">>) \o Plus({}, {"s"}) \o Lit(<<"a", "l">>) \o Opt({"."}, {})
Year == Group(2, Set({}, {"d"}, FALSE, 4, 4, TRUE))

citation_patterns ==
    << \* \[([A-Z][a-z]+(?:\s+et\s+al\.?)?),?\s*(\d{4})\]
       Ch("[") \o Group(1, AuthorName \o Alt(<<EtAl, <<>>>>)) \o Opt({","}, {})
       \o Star({}, {"s"}) \o Year \o Ch("]"),
       \* \(([A-Z][a-z]+(?:\s+et\s+al\.?)?),?\s*(\d{4})\)
       Ch("(") \o Group(1, AuthorName \o Alt(<<EtAl, <<>>>>)) \o Opt({","}, {})
       \o Star({}, {"s"}) \o Year \o Ch(")"),
       \* ([A-Z][a-z]+(?:\s+et\s+al\.?))\s*\((\d{4})\)
       Group(1, AuthorName \o EtAl) \o Star({}, {"s"}) \o Ch("(") \o Year \o Ch(")") >>

MaxCitations == 15

Citation(id, authors, year, cited_title, cited_count) ==
    [id |-> id, authors |-> authors, year |-> year, title |-> cited_title,
     cited_count |-> cited_count]

\* the (author, year) of every match of one pattern; the key f"{author}_{year}"
\* is the same for two matches exactly when both parts are
cited(ms, t) ==
    [m \in 1..Len(ms) |-> [authors |-> group(t, ms[m], 1), year |-> group(t, ms[m], 2)]]

\* lines 399-412: every match of every pattern, pattern by pattern
all_cited(t) ==
    Flatten([k \in 1..Len(citation_patterns) |->
                cited(finditer(citation_patterns[k], t, NoFlags), t)])

\* lines 415-428
citations_of(sorted_citations) ==
    [i \in 1..Len(sorted_citations) |->
        Citation(i, sorted_citations[i].term.authors, sorted_citations[i].term.year,
                 <<>>, sorted_citations[i].count)]

\* (a slip: the list is cut to 15 entries before it is sorted)
extract_citations_cut_first(t) ==
    citations_of(sort_by_count(slice(Counter(all_cited(t)), 0, MaxCitations)))

extract_citations(t) ==
    citations_of(slice(sort_by_count(Counter(all_cited(t))), 0, MaxCitations))

\* analyze_paper, lines 656-661; order is the iteration order of the set
\* COMMON_TECHNICAL_TERMS in the running interpreter
analyze_paper(t, order) ==
    [sections |-> extract_sections(t),
     terms |-> extract_technical_terms(t, order),
     figures |-> extract_figures_tables_equations(t),
     citations |-> extract_citations(t)]

(***************************************************************************)
(* DocumentAnalyzer.analyze_document                                       *)
(***************************************************************************)
STOPWORDS ==
    {<<"a">>, <<"a", "n">>, <<"t", "h", "e">>, <<"a", "n", "d">>, <<"o", "r">>, <<"b", "u", "t">>,
     <<"i", "n">>, <<"o", "n">>, <<"a", "t">>, <<"t", "o">>, <<"f", "o", "r">>, <<"o", "f">>,
     <<"w", "i", "t", "h">>, <<"b", "y">>, <<"f", "r", "o", "m">>, <<"i", "s">>, <<"a", "r", "e">>,
     <<"w", "a", "s">>, <<"w", "e", "r", "e">>, <<"b", "e">>, <<"b", "e", "e", "n">>,
     <<"b", "e", "i", "n", "g">>, <<"h", "a", "v", "e">>, <<"h", "a", "s">>, <<"h", "a", "d">>, <<"d", "o">>,
     <<"d", "o", "e", "s">>, <<"d", "i", "d">>, <<"w", "i", "l", "l">>, <<"w", "o", "u", "l", "d">>,
     <<"c", "o", "u", "l", "d">>, <<"s", "h", "o", "u", "l", "d">>, <<"m", "a", "y">>,
     <<"m", "i", "g", "h", "t">>, <<"s", "h", "a", "l", "l">>, <<"c", "a", "n">>, <<"n", "e", "e", "d">>,
     <<"d", "a", "r", "e">>, <<"o", "u", "g", "h", "t">>, <<"u", "s", "e", "d">>, <<"i", "t">>,
     <<"i", "t", "s">>, <<"t", "h", "i", "s">>, <<"t", "h", "a", "t">>, <<"t", "h", "e", "s", "e">>,
     <<"t", "h", "o", "s", "e">>, <<"i">>, <<"m", "e">>, <<"m", "y">>, <<"w", "e">>, <<"o", "u", "r">>,
     <<"y", "o", "u">>, <<"y", "o", "u", "r">>, <<"h", "e">>, <<"s", "h", "e">>, <<"t", "h", "e", "y">>,
     <<"t", "h", "e", "m">>, <<"t", "h", "e", "i", "r">>, <<"w", "h", "a", "t">>,
     <<"w", "h", "i", "c", "h">>, <<"w", "h", "o">>, <<"w", "h", "e", "n">>, <<"w", "h", "e", "r", "e">>,
     <<"h", "o", "w">>, <<"n", "o", "t">>, <<"n", "o">>, <<"n", "o", "r">>, <<"a", "s">>, <<"i", "f">>,
     <<"t", "h", "e", "n">>, <<"t", "h", "a", "n">>, <<"t", "o", "o">>, <<"v", "e", "r", "y">>,
     <<"a", "l", "s", "o">>, <<"j", "u", "s", "t">>, <<"a", "b", "o", "u", "t">>,
     <<"a", "b", "o", "v", "e">>, <<"a", "f", "t", "e", "r">>, <<"a", "g", "a", "i", "n">>,
     <<"a", "l", "l">>, <<"a", "m">>, <<"a", "n", "y">>, <<"b", "e", "c", "a", "u", "s", "e">>,
     <<"b", "e", "f", "o", "r", "e">>, <<"b", "e", "l", "o", "w">>, <<"b", "e", "t", "w", "e", "e", "n">>,
     <<"b", "o", "t", "h">>, <<"e", "a", "c", "h">>, <<"f", "e", "w">>,
     <<"f", "u", "r", "t", "h", "e", "r">>, <<"h", "e", "r", "e">>, <<"i", "n", "t", "o">>,
     <<"m", "o", "r", "e">>, <<"m", "o", "s", "t">>, <<"o", "t", "h", "e", "r">>, <<"o", "u", "t">>,
     <<"o", "v", "e", "r">>, <<"o", "w", "n">>, <<"s", "a", "m", "e">>, <<"s", "o">>, <<"s", "o", "m", "e">>,
     <<"s", "u", "c", "h">>, <<"t", "h", "r", "o", "u", "g", "h">>, <<"u", "n", "d", "e", "r">>,
     <<"u", "n", "t", "i", "l">>, <<"u", "p">>, <<"w", "h", "i", "l", "e">>,
     <<"d", "u", "r", "i", "n", "g">>, <<"e", "t">>, <<"a", "l">>, <<"f", "i", "g">>,
     <<"f", "i", "g", "u", "r", "e">>, <<"t", "a", "b", "l", "e">>, <<"h", "o", "w", "e", "v", "e", "r">>,
     <<"t", "h", "u", "s">>, <<"t", "h", "e", "r", "e", "f", "o", "r", "e">>,
     <<"a", "l", "t", "h", "o", "u", "g", "h">>, <<"s", "i", "n", "c", "e">>, <<"u", "s", "i", "n", "g">>,
     <<"b", "a", "s", "e", "d">>, <<"t", "w", "o">>, <<"o", "n", "e">>, <<"t", "h", "r", "e", "e">>,
     <<"f", "o", "u", "r">>, <<"f", "i", "v", "e">>, <<"n", "e", "w">>, <<"f", "i", "r", "s", "t">>,
     <<"w", "e", "l", "l">>, <<"u", "s">>, <<"u", "s", "e">>, <<"m", "a", "n", "y">>, <<"m", "u", "c", "h">>,
     <<"e", "v", "e", "n">>, <<"s", "t", "i", "l", "l">>, <<"i", "n", "c", "l", "u", "d", "i", "n", "g">>,
     <<"g", "i", "v", "e", "n">>, <<"s", "h", "o", "w">>, <<"s", "h", "o", "w", "s">>,
     <<"s", "h", "o", "w", "n">>, <<"s", "e", "e">>, <<"e">>, <<"g">>, <<"e", "g">>, <<"i", "e">>,
     <<"e", "t", "c">>, <<"v", "s">>, <<"p", "a", "p", "e", "r">>, <<"s", "e", "c", "t", "i", "o", "n">>,
     <<"m", "e", "t", "h", "o", "d">>, <<"a", "p", "p", "r", "o", "a", "c", "h">>,
     <<"p", "r", "o", "p", "o", "s", "e">>, <<"p", "r", "o", "p", "o", "s", "e", "d">>,
     <<"p", "r", "e", "s", "e", "n", "t">>, <<"p", "r", "e", "s", "e", "n", "t", "e", "d">>,
     <<"w", "o", "r", "k">>, <<"s", "t", "u", "d", "y">>, <<"r", "e", "s", "u", "l", "t">>,
     <<"r", "e", "s", "u", "l", "t", "s">>, <<"n", "u", "m", "b", "e", "r">>, <<"s", "e", "t">>,
     <<"o", "r", "d", "e", "r">>, <<"c", "a", "s", "e">>, <<"h", "i", "g", "h">>, <<"l", "o", "w">>,
     <<"l", "a", "r", "g", "e">>, <<"s", "m", "a", "l", "l">>,
     <<"d", "i", "f", "f", "e", "r", "e", "n", "t">>, <<"s", "i", "m", "i", "l", "a", "r">>,
     <<"p", "r", "e", "v", "i", "o", "u", "s">>, <<"f", "o", "l", "l", "o", "w", "i", "n", "g">>,
     <<"r", "e", "s", "p", "e", "c", "t", "i", "v", "e", "l", "y">>,
     <<"c", "o", "r", "r", "e", "s", "p", "o", "n", "d", "i", "n", "g">>,
     <<"a", "c", "c", "o", "r", "d", "i", "n", "g">>, <<"c", "o", "m", "p", "a", "r", "e", "d">>,
     <<"e", "x", "a", "m", "p", "l", "e">>, <<"c", "o", "n", "s", "i", "d", "e", "r">>,
     <<"n", "o", "t", "e">>, <<"a", "b", "l", "e">>, <<"g", "e", "t">>, <<"g", "o", "t">>,
     <<"t", "a", "k", "e">>, <<"t", "a", "k", "e", "n">>, <<"m", "a", "k", "e">>, <<"m", "a", "d", "e">>,
     <<"p", "r", "o", "v", "i", "d", "e">>, <<"p", "r", "o", "v", "i", "d", "e", "s">>,
     <<"t", "o", "t", "a", "l">>, <<"o", "n", "l", "y">>, <<"w", "i", "t", "h", "o", "u", "t">>,
     <<"w", "i", "t", "h", "i", "n">>, <<"a", "m", "o", "n", "g">>, <<"a", "c", "r", "o", "s", "s">>,
     <<"p", "e", "r">>, <<"v", "i", "a">>, <<"l", "i", "k", "e">>,
     <<"s", "p", "e", "c", "i", "f", "i", "c">>, <<"p", "a", "r", "t", "i", "c", "u", "l", "a", "r">>,
     <<"g", "e", "n", "e", "r", "a", "l">>, <<"o", "v", "e", "r", "a", "l", "l">>, <<"l", "e", "f", "t">>,
     <<"r", "i", "g", "h", "t">>, <<"e", "n", "d">>, <<"p", "a", "r", "t">>, <<"e", "v", "e", "r", "y">>,
     <<"e", "i", "t", "h", "e", "r">>, <<"n", "e", "i", "t", "h", "e", "r">>,
     <<"r", "a", "t", "h", "e", "r">>}

WordsPerMinute == 250

\* math.ceil(a / b) for a >= 0, b > 0
ceil_div(a, b) == (a + b - 1) \div b

\* the strings of ss that are not blank: [s for s in ss if s.strip()]
non_blank(ss) == SelectSeq(ss, LAMBDA s : strip(s) # <<>>)

\* _compute_stats, lines 97-117
_compute_stats(t) ==
    [words |-> Len(split(t)),
     reading_time |->
         str_int(Max({1, ceil_div(Len(split(t)), WordsPerMinute)})) \o <<" ", "m", "i", "n">>,
     sentences |->
         Len(non_blank(re_split0(Set({".", "!", "?"}, {}, FALSE, 1, Unbounded, TRUE),
                                 t, NoFlags))),
     paragraphs |-> Len(non_blank(re_split0(Lit(<<"\n", "\n">>), t, NoFlags))),
     characters |-> Len(t)]

KeywordTopN == 20
MinKeywordLen == 3
MaxKeywordLen == 25
MinUnigramCount == 2
MostCommonBigrams == 15
MinBigramCount == 3
MaxBigrams == 8

\* the text of every match of ms: re.findall for a pattern without groups
match_texts(ms, s) == [m \in 1..Len(ms) |-> SubSeq(s, ms[m].start, ms[m].end - 1)]

\* re.findall(r'\b[a-zA-Z]{3,}\b', text.lower())
keyword_words(text_lower) ==
    match_texts(finditer(WordB \o Set({}, {"alpha"}, FALSE, MinKeywordLen, Unbounded, TRUE)
                         \o WordB, text_lower, NoFlags),
                text_lower)

\* lines 179-180
filter_words(words) ==
    SelectSeq(words, LAMBDA w : /\ w \notin STOPWORDS
                                /\ MinKeywordLen <= Len(w)
                                /\ Len(w) <= MaxKeywordLen)

\* lines 185-190: the pairs of neighbours that differ, as 'first second'
bigrams_of(filtered) ==
    LET at == {i \in 1..(Len(filtered) - 1) : filtered[i] # filtered[i + 1]}
    IN [k \in 1..Cardinality(at) |->
           filtered[Nth(at, k)] \o <<" ">> \o filtered[Nth(at, k) + 1]]

\* [x for x, count in Counter(xs).most_common(n) if count >= least]
most_common_with(xs, n, least) ==
    LET top == SelectSeq(slice(sort_by_count(Counter(xs)), 0, n),
                         LAMBDA e : e.count >= least)
    IN [k \in 1..Len(top) |-> top[k].term]

\* lines 204-211: the bigrams kept (one with the same word twice is skipped)
kept_bigrams(top_bigrams) ==
    SelectSeq(slice(top_bigrams, 0, MaxBigrams),
              LAMBDA bg : split(bg)[1] # split(bg)[2])

\* lines 212-220 without the seen_words test of line 213
added_unigrams_any(top_unigrams, bigrams, top_n) ==
    slice(SelectSeq(top_unigrams,
                    LAMBDA ug : \E k \in 1..Len(ug) : ug[k] \in {"a", "e", "i", "o", "u"}),
          0, IF top_n > Len(bigrams) THEN top_n - Len(bigrams) ELSE 0)

\* lines 212-220: a unigram is added while the list is shorter than top_n,
\* unless it is a word of a kept bigram or has no vowel (the unigrams are
\* distinct, so seen_words only ever excludes the words of the bigrams)
added_unigrams(top_unigrams, bigrams, top_n) ==
    slice(SelectSeq(top_unigrams,
                    LAMBDA ug : /\ \A b \in 1..Len(bigrams) :
                                      ug # split(bigrams[b])[1] /\ ug # split(bigrams[b])[2]
                                /\ \E k \in 1..Len(ug) : ug[k] \in {"a", "e", "i", "o", "u"}),
          0, IF top_n > Len(bigrams) THEN top_n - Len(bigrams) ELSE 0)

\* lines 201-222
merge_keywords(top_bigrams, top_unigrams, top_n) ==
    slice(kept_bigrams(top_bigrams)
          \o added_unigrams(top_unigrams, kept_bigrams(top_bigrams), top_n), 0, top_n)

keywords_from(filtered, top_n) ==
    merge_keywords(most_common_with(bigrams_of(filtered), MostCommonBigrams, MinBigramCount),
                   most_common_with(filtered, top_n * 2, MinUnigramCount), top_n)

_extract_keywords(t, top_n) ==
    keywords_from(filter_words(keyword_words(lower(_fix_reversed_text(t)))), top_n)

MaxQuestions == 5

\* \b(?:w1|w2|...)\b
any_word(ws) == WordB \o Alt(ws) \o WordB

Dot == Set({}, {"dot"}, FALSE, 1, 1, TRUE)

\* the section words looked for, with the question each one adds
question_patterns ==
    << [pattern |-> any_word(<<Lit(<<"m", "e", "t", "h", "o", "d">>), Lit(<<"m", "e", "t", "h", "o", "d", "o", "l", "o", "g", "y">>), Lit(<<"a", "p", "p", "r", "o", "a", "c", "h">>)>>),
        question |-> <<"W", "h", "a", "t", " ", "m", "e", "t", "h", "o", "d", "o", "l", "o", "g", "y", " ", "o", "r", " ", "a", "p", "p", "r", "o", "a", "c", "h", " ", "d", "o", "e", "s", " ", "t", "h", "i", "s", " ", "p", "a", "p", "e", "r", " ", "u", "s", "e", "?">>],
       [pattern |-> any_word(<<Lit(<<"r", "e", "s", "u", "l", "t">>), Lit(<<"f", "i", "n", "d", "i", "n", "g">>), Lit(<<"e", "x", "p", "e", "r", "i", "m", "e", "n", "t">>)>>),
        question |-> <<"W", "h", "a", "t", " ", "a", "r", "e", " ", "t", "h", "e", " ", "m", "a", "i", "n", " ", "r", "e", "s", "u", "l", "t", "s", " ", "a", "n", "d", " ", "f", "i", "n", "d", "i", "n", "g", "s", "?">>],
       [pattern |-> any_word(<<Lit(<<"c", "o", "n", "c", "l", "u", "s", "i", "o", "n">>), Lit(<<"f", "u", "t", "u", "r", "e", " ", "w", "o", "r", "k">>), Lit(<<"l", "i", "m", "i", "t", "a", "t", "i", "o", "n">>)>>),
        question |-> <<"W", "h", "a", "t", " ", "a", "r", "e", " ", "t", "h", "e", " ", "c", "o", "n", "c", "l", "u", "s", "i", "o", "n", "s", " ", "a", "n", "d", " ", "l", "i", "m", "i", "t", "a", "t", "i", "o", "n", "s", "?">>],
       [pattern |-> any_word(<<Lit(<<"c", "o", "n", "t", "r", "i", "b", "u", "t">>), Lit(<<"n", "o", "v", "e", "l">>), Lit(<<"p", "r", "o", "p", "o", "s">>)>>),
        question |-> <<"W", "h", "a", "t", " ", "a", "r", "e", " ", "t", "h", "e", " ", "k", "e", "y", " ", "c", "o", "n", "t", "r", "i", "b", "u", "t", "i", "o", "n", "s", " ", "o", "f", " ", "t", "h", "i", "s", " ", "w", "o", "r", "k", "?">>],
       [pattern |-> any_word(<<Lit(<<"c", "o", "m", "p", "a", "r">>), Lit(<<"b", "a", "s", "e", "l", "i", "n", "e">>), Lit(<<"b", "e", "n", "c", "h", "m", "a", "r", "k">>),
                               Lit(<<"s", "t", "a", "t", "e">>) \o Dot \o Lit(<<"o", "f">>) \o Dot \o Lit(<<"t", "h", "e">>)
                               \o Dot \o Lit(<<"a", "r", "t">>)>>),
        question |-> <<"H", "o", "w", " ", "d", "o", "e", "s", " ", "t", "h", "i", "s", " ", "a", "p", "p", "r", "o", "a", "c", "h", " ", "c", "o", "m", "p", "a", "r", "e", " ", "t", "o", " ", "e", "x", "i", "s", "t", "i", "n", "g", " ", "m", "e", "t", "h", "o", "d", "s", "?">>] >>

\* lines 233-246
section_questions(text_lower) ==
    LET asked == {k \in 1..Len(question_patterns) :
                     Search(question_patterns[k].pattern, text_lower, 1, NoFlags).ok}
    IN [j \in 1..Cardinality(asked) |-> question_patterns[Nth(asked, j)].question]

\* lines 249-251
keyword_question(keywords) ==
    IF keywords # <<>>
    THEN <<<<"C", "a", "n", " ", "y", "o", "u", " ", "e", "x", "p", "l", "a", "i", "n", " ", "t", "h", "e", " ", "r", "o", "l", "e", " ", "o", "f", " ", "'">> \o keywords[1] \o <<"'", " ", "i", "n", " ", "t", "h", "i", "s", " ", "p", "a", "p", "e", "r", "?">>>>
    ELSE <<>>

\* lines 254-258
or_general_questions(questions) ==
    slice(IF questions = <<>>
          THEN <<<<"W", "h", "a", "t", " ", "i", "s", " ", "t", "h", "i", "s", " ", "p", "a", "p", "e", "r", " ", "a", "b", "o", "u", "t", "?">>, <<"W", "h", "a", "t", " ", "p", "r", "o", "b", "l", "e", "m", " ", "d", "o", "e", "s", " ", "t", "h", "i", "s", " ", "p", "a", "p", "e", "r", " ", "a", "d", "d", "r", "e", "s", "s", "?">>>>
          ELSE questions, 0, MaxQuestions)

_generate_suggested_questions(t, keywords) ==
    or_general_questions(section_questions(lower(t)) \o keyword_question(keywords))

\* lines 90-95, with the keywords computed at line 87 passed on to line 88
analysis_of(t, keywords) ==
    [stats |-> _compute_stats(t),
     summary |-> _extract_summary(t),
     keywords |-> keywords,
     suggested_questions |-> _generate_suggested_questions(t, keywords)]

analyze_document(t) ==
    IF t = <<>> \/ strip(t) = <<>>
    THEN [stats |-> [words |-> 0, reading_time |-> <<"0", " ", "m", "i", "n">>],
          summary |-> <<>>, keywords |-> <<>>, suggested_questions |-> <<>>]
    ELSE analysis_of(t, _extract_keywords(t, KeywordTopN))

(***************************************************************************)
(* Inputs: the caller builds the document text piece by piece              *)
(***************************************************************************)
W1 == <<"w">>
W3W3 == <<"w","w","w"," ","w","w","w"," ">>
Abstract == <<"A","b","s","t","r","a","c","t">>
AbstractLine == <<"\n","A","b","s","t","r","a","c","t","\n">>
ResultsLine == <<"\n","r","e","s","u","l","t","s","\n">>

\* pieces an input of the chunker is concatenated from
ChunkPieces == {W1, <<" ">>, <<"\n">>, Abstract, AbstractLine, ResultsLine, W3W3}

\* pieces an input of the normalizers is concatenated from
CleanPieces == {<<"a">>, <<"<","b",">">>, <<"@","c",".","d">>, <<"[","x","]">>,
                <<" ">>, <<"<">>, <<">">>, <<"U+00E9">>, <<"U+FB01">>}

DefaultChunkSize == 1500

\* the calls whose return values are kept side by side
PassCalls == {"analyze_paper", "analyze_document"}

InitCommon ==
    /\ text = <<>>
    /\ top_n_given = KeywordTopN
    /\ chunk_text = <<>>
    /\ op = ""
    /\ pc = "input"
    /\ sections = <<>>
    /\ idx = 1
    /\ current_chunk_words = <<>>
    /\ current_length = 0
    /\ current_offset = 0
    /\ current_section = None
    /\ chunks = <<>>
    /\ result = <<>>
    /\ npieces = 0
    /\ previous = <<>>
    /\ returned = [c \in PassCalls |-> Unset]
    /\ _vectorstore = Null
    /\ _embedding_model = Null
    /\ _chain = Null
    /\ _retriever = Null
    /\ _llm = Null
    /\ _message_history = <<>>
    /\ _chat_history = <<>>
    /\ _last_source_docs = Unset
    /\ raised = ""
    /\ ncalls = 0
    /\ stores_made = 0
    /\ chains_made = 0
    /\ questions_asked = <<>>
    /\ _processed_count = 0
    /\ _failed_files = <<>>
    /\ pdf_files = <<>>
    /\ continue_on_error = TRUE
    /\ file_idx = 1
    /\ combined_text = <<>>

\* the caller extends the document text by one piece
AppendPiece(p, max) ==
    /\ pc = "input"
    /\ npieces < max
    /\ text' = text \o p
    /\ npieces' = npieces + 1
    /\ UNCHANGED <<top_n_given, op, pc, chunkVars, result,
                   previous, returned, managerVars>>

(***************************************************************************)
(* The chunker as a state machine                                          *)
(***************************************************************************)
InitChunk ==
    /\ InitCommon
    /\ chunk_size \in {SmallChunkSize, LargeChunkSize, DefaultChunkSize}

\* create_chunks(t), lines 126-134: empty input returns [], otherwise the
\* text is split on the header pattern and the loop state is initialised
EnterCreateChunks(t) ==
    /\ chunk_text' = t
    /\ IF t = <<>>
       THEN /\ pc' = "done"
            /\ sections' = <<>>
       ELSE /\ pc' = "loop"
            /\ sections' = header_split(t)
    /\ idx' = 1
    /\ current_chunk_words' = <<>>
    /\ current_length' = 0
    /\ current_offset' = 0
    /\ current_section' = None
    /\ chunks' = <<>>

\* processor.create_chunks(text, return_metadata=True)
CreateChunks ==
    /\ pc = "input"
    /\ op' = "create_chunks"
    /\ EnterCreateChunks(text)
    /\ UNCHANGED <<top_n_given, text, npieces, chunk_size, result,
                   previous, returned, managerVars>>

\* processor.process(text): clean_text, then create_chunks on its output
Process ==
    /\ pc = "input"
    /\ op' = "process"
    /\ EnterCreateChunks(clean_text(text))
    /\ UNCHANGED <<top_n_given, text, npieces, chunk_size, result,
                   previous, returned, managerVars>>

\* the header iteration with line 152 moved before the flush of lines 140-150
HeaderSegment_relabelling ==
    /\ pc = "loop"
    /\ idx <= Len(sections)
    /\ section_match(sections[idx])
    /\ LET section == sections[idx]
       IN /\ chunks' = IF current_chunk_words # <<>>
                       THEN flush(chunks, current_chunk_words,
                                  current_offset, capitalize(section))
                       ELSE chunks
          /\ current_length' = IF current_chunk_words # <<>> THEN 0
                               ELSE current_length
          /\ current_section' = capitalize(section)
          /\ current_chunk_words' = <<section>>
          /\ current_offset' = next_offset(current_offset, section)
    /\ idx' = idx + 1
    /\ UNCHANGED <<top_n_given, text, npieces, chunk_text, op, pc, chunk_size, sections, result,
                   previous, returned, managerVars>>

\* one iteration of  for section in sections  on a header segment
HeaderSegment ==
    /\ pc = "loop"
    /\ idx <= Len(sections)
    /\ section_match(sections[idx])
    /\ LET section == sections[idx]
       IN /\ chunks' = IF current_chunk_words # <<>>
                       THEN flush(chunks, current_chunk_words,
                                  current_offset, current_section)
                       ELSE chunks
          /\ current_length' = IF current_chunk_words # <<>> THEN 0
                               ELSE current_length
          /\ current_section' = capitalize(section)
          /\ current_chunk_words' = <<section>>
          /\ current_offset' = next_offset(current_offset, section)
    /\ idx' = idx + 1
    /\ UNCHANGED <<top_n_given, text, npieces, chunk_text, op, pc, chunk_size, sections, result,
                   previous, returned, managerVars>>

\* one iteration of  for section in sections  on a non-header segment
BodySegment ==
    /\ pc = "loop"
    /\ idx <= Len(sections)
    /\ ~section_match(sections[idx])
    /\ LET st == pack_words(split(sections[idx]),
                            [w |-> current_chunk_words,
                             len |-> current_length, c |-> chunks],
                            current_offset, current_section, chunk_size)
       IN /\ current_chunk_words' = st.w
          /\ current_length' = st.len
          /\ chunks' = st.c
    /\ idx' = idx + 1
    /\ UNCHANGED <<top_n_given, text, npieces, chunk_text, op, pc, chunk_size, sections,
                   current_offset, current_section, result,
                   previous, returned, managerVars>>

\* after the loop: the last chunk is flushed and the list returned
FinishChunks ==
    /\ pc = "loop"
    /\ idx > Len(sections)
    /\ chunks' = IF current_chunk_words # <<>>
                 THEN flush(chunks, current_chunk_words,
                            current_offset, current_section)
                 ELSE chunks
    /\ pc' = "done"
    /\ UNCHANGED <<top_n_given, text, npieces, chunk_text, op, chunk_size, sections, idx,
                   current_chunk_words, current_length, current_offset,
                   current_section, result,
                   previous, returned, managerVars>>

NextChunk ==
    \/ \E p \in ChunkPieces : AppendPiece(p, MaxPieces)
    \/ CreateChunks
    \/ Process
    \/ HeaderSegment
    \/ BodySegment
    \/ FinishChunks

SpecChunk == InitChunk /\ [][NextChunk]_vars

(***************************************************************************)
(* The normalizers, called once and then again on their own output         *)
(***************************************************************************)
InitClean ==
    /\ InitCommon
    /\ chunk_size = DefaultChunkSize

\* result = f(text); f is a pure function of the text
Call(name, value) ==
    /\ pc = "input"
    /\ op' = name
    /\ result' = value
    /\ pc' = "done"
    /\ UNCHANGED <<top_n_given, text, npieces, chunkVars,
                   previous, returned, managerVars>>

\* the caller feeds the output back in: result = f(result)
CallAgain(name, again, value) ==
    /\ pc = "done"
    /\ op = name
    /\ op' = again
    /\ text' = result
    /\ result' = value
    /\ UNCHANGED <<top_n_given, pc, npieces, chunkVars,
                   previous, returned, managerVars>>

CleanText == Call("clean_text", clean_text(text))
CleanTextAgain == CallAgain("clean_text", "clean_text_again", clean_text(result))
CleanPdfText == Call("clean_pdf_text", clean_pdf_text(text))
CleanPdfTextAgain ==
    CallAgain("clean_pdf_text", "clean_pdf_text_again", clean_pdf_text(result))

NextClean ==
    \/ \E p \in CleanPieces : AppendPiece(p, MaxCleanPieces)
    \/ CleanText
    \/ CleanTextAgain
    \/ CleanPdfText
    \/ CleanPdfTextAgain

SpecClean == InitClean /\ [][NextClean]_vars

(***************************************************************************)
(* PaperAnalyzer.extract_sections applied to a document                    *)
(***************************************************************************)
SectionPieces == {<<"A", "b", "s", "t", "r", "a", "c", "t", "\n">>, <<"\n", "r", "e", "s", "u", "l", "t", "s", "\n">>, <<"2", ".", " ", "M", "e", "t", "h", "o", "d", "s", "\n">>, <<"w", " ">>, <<"\n">>, <<"U+0130">>}

InitSections ==
    /\ InitCommon
    /\ chunk_size = DefaultChunkSize

ExtractSections == Call("extract_sections", extract_sections(text))

NextSections ==
    \/ \E p \in SectionPieces : AppendPiece(p, MaxSectionPieces)
    \/ ExtractSections

SpecSections == InitSections /\ [][NextSections]_vars

(***************************************************************************)
(* PaperAnalyzer.extract_figures_tables_equations applied to a document    *)
(***************************************************************************)
FigurePieces == {<<"F", "i", "g", "u", "r", "e", " ", "1">>, <<":", " ", "L", "o", "s", "s", " ", "c", "u", "r", "v", "e", ".">>, <<" ", "s", "h", "o", "w", "s">>, <<"\n">>, <<"f", "i", "g", ".", " ", "1">>, <<"T", "a", "b", "l", "e", " ", "2">>,
                 <<"E", "q", ".", " ", "(", "3", ")">>, <<"$", "$", "x", "$", "$">>}

InitFigures ==
    /\ InitCommon
    /\ chunk_size = DefaultChunkSize

ExtractFigures ==
    Call("extract_figures_tables_equations", extract_figures_tables_equations(text))

NextFigures ==
    \/ \E p \in FigurePieces : AppendPiece(p, MaxFigurePieces)
    \/ ExtractFigures

SpecFigures == InitFigures /\ [][NextFigures]_vars

(***************************************************************************)
(* PaperAnalyzer.extract_technical_terms applied to a document             *)
(***************************************************************************)
TermPieces == {<<"C", "N", "N", " ">>, <<"C", "N", "N", " ", "C", "N", "N", " ", "C", "N", "N", " ">>, <<"R", "N", "N", " ">>, <<"T", "H", "E", " ">>, <<"W", "e", " ", "t", "r", "a", "i", "n", " ", "t", "h", "e", " ", "g", "a", "n", " ", "h", "e", "r", "e", ".", " ">>}

InitTerms ==
    /\ InitCommon
    /\ chunk_size = DefaultChunkSize

ExtractTerms ==
    /\ pc = "input"
    /\ \E order \in IterationOrders(found_terms(text)) :
           Call("extract_technical_terms", extract_technical_terms(text, order))

\* the same text is analysed once more, by an interpreter started anew: the
\* iteration order of the set COMMON_TECHNICAL_TERMS follows the hashes of
\* its strings, which every interpreter process salts afresh
ExtractTermsAgain ==
    /\ pc = "done"
    /\ op = "extract_technical_terms"
    /\ \E order \in IterationOrders(found_terms(text)) :
           result' = extract_technical_terms(text, order)
    /\ previous' = result
    /\ op' = "extract_technical_terms_again"
    /\ UNCHANGED <<top_n_given, text, pc, npieces, chunkVars, returned, managerVars>>

NextTerms ==
    \/ \E p \in TermPieces : AppendPiece(p, MaxTermPieces)
    \/ ExtractTerms
    \/ ExtractTermsAgain

SpecTerms == InitTerms /\ [][NextTerms]_vars

(***************************************************************************)
(* DocumentAnalyzer._extract_summary applied to a document                 *)
(***************************************************************************)
AbstractHeader == <<"A", "b", "s", "t", "r", "a", "c", "t", "\n">>
IntroductionHeader == <<"\n", "I", "n", "t", "r", "o", "d", "u", "c", "t", "i", "o", "n", "\n">>
ShortAbstract == <<"T", "h", "i", "s", " ", "p", "a", "p", "e", "r", " ", "s", "t", "u", "d", "i", "e", "s", " ", "X", ".", " ", "W", "e", " ", "s", "h", "o", "w", " ", "Y", ".", " ">>
LongAbstract == <<"W", "e", " ", "p", "r", "e", "s", "e", "n", "t", " ", "a", " ", "m", "e", "t", "h", "o", "d", " ", "t", "h", "a", "t", " ", "s", "p", "l", "i", "t", "s", " ", "l", "o", "n", "g", " ", "d", "o", "c", "u", "m", "e", "n", "t", "s", " ", "i", "n", "t", "o", " ", "c", "h", "u", "n", "k", "s", ".", " ", "I", "t", " ", "w", "o", "r", "k", "s", ".">>
IntroductionBody == <<"X", " ", "i", "s", " ", "i", "m", "p", "o", "r", "t", "a", "n", "t", " ", "b", "e", "c", "a", "u", "s", "e", " ", "Z", ".">>
ReversedWords == <<"e", "h", "t", " ", "d", "n", "a", " ", "r", "o", "f", " ", "e", "r", "a", " ", "t", "u", "b", " ", "t", "o", "n", " ", "u", "o", "y", " ", "l", "l", "a", " ", "n", "a", "c", " ", "d", "a", "h", " ">>

SummaryPieces == {AbstractHeader, ShortAbstract, LongAbstract,
                  IntroductionHeader \o IntroductionBody, ReversedWords, <<"\n", "\n">>}

InitSummary ==
    /\ InitCommon
    /\ chunk_size = DefaultChunkSize

ExtractSummary == Call("_extract_summary", _extract_summary(text))

NextSummary ==
    \/ \E p \in SummaryPieces : AppendPiece(p, MaxSummaryPieces)
    \/ ExtractSummary

SpecSummary == InitSummary /\ [][NextSummary]_vars

(***************************************************************************)
(* DocumentAnalyzer._fix_reversed_text applied to a document               *)
(***************************************************************************)
CommonWords == <<"T", "h", "e", " ", "a", "n", "d", " ", "f", "o", "r", " ", "a", "r", "e", " ", "b", "u", "t", " ">>
ShortReversed == <<"E", "H", "T", " ", "d", "n", "a", " ", " ", "d", "i", "d", "\n">>

ReversedPieces == {ReversedWords, CommonWords, ShortReversed, ShortAbstract}

InitReversed ==
    /\ InitCommon
    /\ chunk_size = DefaultChunkSize

FixReversedText == Call("_fix_reversed_text", _fix_reversed_text(text))

NextReversed ==
    \/ \E p \in ReversedPieces : AppendPiece(p, MaxReversedPieces)
    \/ FixReversedText

SpecReversed == InitReversed /\ [][NextReversed]_vars

(***************************************************************************)
(* TextProcessor.clean_text applied to text with captions                  *)
(***************************************************************************)
FigureCaption == <<"F", "i", "g", "u", "r", "e", " ", "1", ":", " ", "C", "a", "p", "t", "i", "o", "n", " ", "h", "e", "r", "e">>
TableCaption == <<"T", "a", "b", "l", "e", " ", "2", ":", " ", "S", "i", "z", "e", "s">>

CaptionPieces == {<<"S", "o", "m", "e", " ", "t", "e", "x", "t", " ">>, FigureCaption, TableCaption, <<"\n">>, <<" ", "m", "o", "r", "e", " ", "t", "e", "x", "t">>}

InitCaptions ==
    /\ InitCommon
    /\ chunk_size = DefaultChunkSize

NextCaptions ==
    \/ \E p \in CaptionPieces : AppendPiece(p, MaxCaptionPieces)
    \/ CleanText

SpecCaptions == InitCaptions /\ [][NextCaptions]_vars

(***************************************************************************)
(* VectorStoreManager                                                      *)
(***************************************************************************)
\* the variables of the document operations, which no manager touches
documentVars == <<text, npieces, pc, chunkVars, previous, returned>>

\* Config.embedding_model_type and Config.huggingface_model_name; "" stands
\* for None, which the code tests for truth like ''
embedding_model_type == "openai"
huggingface_model_name == ""

OpenAIEmbeddings == [kind |-> "OpenAIEmbeddings"]
HuggingFaceInstructEmbeddings(model_name) ==
    [kind |-> "HuggingFaceInstructEmbeddings", model_name |-> model_name]

\* the model _create_embeddings returns when the library call succeeds
_create_embeddings(model_type, model_name) ==
    IF (IF model_type # "" THEN model_type ELSE embedding_model_type) = "huggingface"
       /\ (IF model_name # "" THEN model_name ELSE huggingface_model_name) # ""
    THEN HuggingFaceInstructEmbeddings(
             IF model_name # "" THEN model_name ELSE huggingface_model_name)
    ELSE OpenAIEmbeddings

\* a FAISS index over texts
FAISS(texts, embedding) == [kind |-> "FAISS", texts |-> texts, embedding |-> embedding]

\* @property is_initialized
VectorStoreManager_is_initialized == _vectorstore # Null

\* the arguments the calls are made with
ChunkLists == {<<>>, <<<<"a">>>>, <<<<"a">>, <<"b">>>>}
ModelTypes == {"", "huggingface"}
ModelNames == {"", "instructor"}
MoreTexts == <<<<"c">>>>

\* a call on the manager returns value or raises exception
StoreCall(name, exception, value) ==
    /\ ncalls < MaxStoreCalls
    /\ ncalls' = ncalls + 1
    /\ op' = name
    /\ raised' = exception
    /\ result' = value
    /\ UNCHANGED <<top_n_given, documentVars, convVars, chains_made, questions_asked, pdfVars>>

StoreNotInitialized(name) ==
    /\ ~VectorStoreManager_is_initialized
    /\ StoreCall(name, "VectorStoreError", Null)
    /\ UNCHANGED <<top_n_given, storeVars, stores_made>>

\* create_vectorstore(text_chunks, model_type, model_name); the embedding
\* library and FAISS.from_texts each succeed or raise
CreateVectorstore ==
    \E text_chunks \in ChunkLists, model_type \in ModelTypes, model_name \in ModelNames :
        \/ /\ text_chunks = <<>>
           /\ StoreCall("create_vectorstore", "ValueError", Null)
           /\ UNCHANGED <<top_n_given, storeVars, stores_made>>
        \/ /\ text_chunks # <<>>
           /\ StoreCall("create_vectorstore", "VectorStoreError", Null)
           /\ UNCHANGED <<top_n_given, storeVars, stores_made>>
        \/ /\ text_chunks # <<>>
           /\ StoreCall("create_vectorstore", "VectorStoreError", Null)
           /\ _embedding_model' = _create_embeddings(model_type, model_name)
           /\ UNCHANGED <<top_n_given, _vectorstore, stores_made>>
        \/ /\ text_chunks # <<>>
           /\ StoreCall("create_vectorstore", "",
                        FAISS(text_chunks, _create_embeddings(model_type, model_name)))
           /\ _embedding_model' = _create_embeddings(model_type, model_name)
           /\ _vectorstore' = FAISS(text_chunks, _create_embeddings(model_type, model_name))
           /\ stores_made' = stores_made + 1

\* add_texts(text_chunks): the index grows in place, or the library raises
AddTexts ==
    \/ StoreNotInitialized("add_texts")
    \/ /\ VectorStoreManager_is_initialized
       /\ StoreCall("add_texts", "VectorStoreError", Null)
       /\ UNCHANGED <<top_n_given, storeVars, stores_made>>
    \/ /\ VectorStoreManager_is_initialized
       /\ StoreCall("add_texts", "", <<Len(_vectorstore.texts) + 1>>)
       /\ _vectorstore' = [_vectorstore EXCEPT !.texts = @ \o MoreTexts]
       /\ UNCHANGED <<top_n_given, _embedding_model, stores_made>>

\* similarity_search(query, k): at most k of the indexed texts, or the
\* library raises
SimilaritySearch ==
    \/ StoreNotInitialized("similarity_search")
    \/ /\ VectorStoreManager_is_initialized
       /\ \/ StoreCall("similarity_search", "VectorStoreError", Null)
          \/ \E k \in {1, 4} :
                 StoreCall("similarity_search", "",
                           slice(_vectorstore.texts, 0,
                                 IF Len(_vectorstore.texts) < k
                                 THEN Len(_vectorstore.texts) ELSE k))
       /\ UNCHANGED <<top_n_given, storeVars, stores_made>>

Retriever(vectorstore) == [kind |-> "VectorStoreRetriever", vectorstore |-> vectorstore]

\* (a slip: the is_initialized check is left out, so the call is made on None)
AsRetriever_unchecked ==
    \/ /\ ~VectorStoreManager_is_initialized
       /\ StoreCall("as_retriever", "AttributeError", Null)
       /\ UNCHANGED <<top_n_given, storeVars, stores_made>>
    \/ /\ VectorStoreManager_is_initialized
       /\ \/ StoreCall("as_retriever", "", Retriever(_vectorstore))
          \/ StoreCall("as_retriever", "ValidationError", Null)
       /\ UNCHANGED <<top_n_given, storeVars, stores_made>>

\* as_retriever(**kwargs): the library call is not wrapped, so what it
\* raises on unknown keyword arguments reaches the caller as it is
AsRetriever ==
    \/ StoreNotInitialized("as_retriever")
    \/ /\ VectorStoreManager_is_initialized
       /\ \/ StoreCall("as_retriever", "", Retriever(_vectorstore))
          \/ StoreCall("as_retriever", "ValidationError", Null)
       /\ UNCHANGED <<top_n_given, storeVars, stores_made>>

\* save_local(path)
SaveLocal ==
    \/ StoreNotInitialized("save_local")
    \/ /\ VectorStoreManager_is_initialized
       /\ \/ StoreCall("save_local", "", Null)
          \/ StoreCall("save_local", "VectorStoreError", Null)
       /\ UNCHANGED <<top_n_given, storeVars, stores_made>>

\* load_local(path, embeddings): what the directory holds is up to the
\* environment; embeddings=None makes the manager create its own
LoadLocal ==
    \/ /\ StoreCall("load_local", "VectorStoreError", Null)
       /\ UNCHANGED <<top_n_given, storeVars, stores_made>>
    \/ \E embeddings \in {Null, HuggingFaceInstructEmbeddings("instructor")} :
           /\ StoreCall("load_local", "", Null)
           /\ _vectorstore' =
                  FAISS(<<<<"d">>>>, IF embeddings = Null THEN _create_embeddings("", "")
                                ELSE embeddings)
           /\ _embedding_model' = IF embeddings = Null THEN _create_embeddings("", "")
                                  ELSE embeddings
           /\ stores_made' = stores_made + 1

InitStore ==
    /\ InitCommon
    /\ chunk_size = DefaultChunkSize

NextStore ==
    \/ CreateVectorstore
    \/ AddTexts
    \/ SimilaritySearch
    \/ AsRetriever
    \/ SaveLocal
    \/ LoadLocal

SpecStore == InitStore /\ [][NextStore]_vars

(***************************************************************************)
(* ConversationManager                                                     *)
(***************************************************************************)
\* Config.min_response_length
min_response_length == 30

\* ChatOpenAI(...): every construction makes a new object
ChatOpenAI(made) == [kind |-> "ChatOpenAI", model_name |-> "gpt-3.5-turbo", made |-> made]

\* prompt | self._llm | StrOutputParser(), with the retrieval step in front;
\* the step reads self._retriever when the chain is invoked
Chain(llm) == [kind |-> "RunnableSequence", llm |-> llm]

HumanMessage(content) == [type |-> "human", content |-> content]
AIMessage(content) == [type |-> "ai", content |-> content]

\* the list of documents the last retrieval stored
DocList(items) == [kind |-> "list", items |-> items]

\* @property is_initialized
ConversationManager_is_initialized == _chain # Null

\* @property chat_history: a copy of the list
chat_history == _chat_history

\* the arguments the calls are made with, and what the model answers
VectorstoreArgs == {Null, FAISS(<<<<"a">>>>, OpenAIEmbeddings)}
Questions == {<<"w", "h", "y">>, <<"h", "o", "w">>}
Answers == {<<"o", "k">>, <<"t", "h", "e", " ", "m", "e", "t", "h", "o", "d", " ", "s", "p", "l", "i", "t", "s", " ", "l", "o", "n", "g", " ", "d", "o", "c", "u", "m", "e", "n", "t", "s">>}

\* a call on the manager returns value or raises exception
ConversationCall(name, exception, value) ==
    /\ ncalls < MaxConversationCalls
    /\ ncalls' = ncalls + 1
    /\ op' = name
    /\ raised' = exception
    /\ result' = value
    /\ UNCHANGED <<top_n_given, documentVars, storeVars, stores_made, pdfVars>>

\* create_chain(vectorstore): ChatOpenAI, vectorstore.as_retriever, the
\* prompt and the composition of the chain each succeed or raise; whatever
\* is raised leaves as ConversationError, the fields assigned before it set
CreateChain ==
    \E vectorstore \in VectorstoreArgs :
        \/ /\ ConversationCall("create_chain", "ConversationError", Null)
           /\ UNCHANGED <<top_n_given, convVars, chains_made, questions_asked>>
        \/ /\ ConversationCall("create_chain", "ConversationError", Null)
           /\ _llm' = ChatOpenAI(ncalls + 1)
           /\ UNCHANGED <<top_n_given, _chain, _retriever, _message_history, _chat_history,
                          _last_source_docs, chains_made, questions_asked>>
        \/ /\ vectorstore # Null
           /\ ConversationCall("create_chain", "ConversationError", Null)
           /\ _llm' = ChatOpenAI(ncalls + 1)
           /\ _retriever' = Retriever(vectorstore)
           /\ \/ UNCHANGED _last_source_docs
              \/ _last_source_docs' = DocList(<<>>)
           /\ UNCHANGED <<top_n_given, _chain, _message_history, _chat_history, chains_made, questions_asked>>
        \/ /\ vectorstore # Null
           /\ ConversationCall("create_chain", "", Chain(ChatOpenAI(ncalls + 1)))
           /\ _llm' = ChatOpenAI(ncalls + 1)
           /\ _retriever' = Retriever(vectorstore)
           /\ _last_source_docs' = DocList(<<>>)
           /\ _chain' = Chain(ChatOpenAI(ncalls + 1))
           /\ chains_made' = chains_made + 1
           /\ UNCHANGED questions_asked
           /\ UNCHANGED <<top_n_given, _message_history, _chat_history>>

\* the dict ask returns; 'chat_history' is the manager's own message list
Answered(answer, messages, is_relevant, docs) ==
    [answer |-> answer, chat_history |-> messages, is_relevant |-> is_relevant,
     source_documents |-> docs]

\* (a slip: the entry is inserted at the front of the chat history)
AskAnswered_newest_first(question, answer, is_relevant, docs) ==
    /\ ConversationCall("ask", "",
           Answered(answer,
                    _message_history \o <<HumanMessage(question), AIMessage(answer)>>,
                    is_relevant, docs))
    /\ _last_source_docs' = DocList(docs)
    /\ _message_history' =
           _message_history \o <<HumanMessage(question), AIMessage(answer)>>
    /\ _chat_history' =
           <<[question |-> question, answer |-> answer,
              is_relevant |-> is_relevant]>> \o _chat_history
    /\ questions_asked' = Append(questions_asked, question)
    /\ UNCHANGED <<top_n_given, _chain, _retriever, _llm, chains_made>>

AskAnswered(question, answer, is_relevant, docs) ==
    /\ ConversationCall("ask", "",
           Answered(answer,
                    _message_history \o <<HumanMessage(question), AIMessage(answer)>>,
                    is_relevant, docs))
    /\ _last_source_docs' = DocList(docs)
    /\ _message_history' =
           _message_history \o <<HumanMessage(question), AIMessage(answer)>>
    /\ _chat_history' =
           Append(_chat_history, [question |-> question, answer |-> answer,
                                  is_relevant |-> is_relevant])
    /\ questions_asked' = Append(questions_asked, question)
    /\ UNCHANGED <<top_n_given, _chain, _retriever, _llm, chains_made>>

\* (a slip: the is_initialized check is left out, so invoke is called on None)
Ask_unchecked ==
    \E question \in Questions :
        \/ /\ ~ConversationManager_is_initialized
           /\ ConversationCall("ask", "ConversationError", Null)
           /\ _last_source_docs' = DocList(<<>>)
           /\ UNCHANGED <<top_n_given, _chain, _retriever, _llm, _message_history,
                          _chat_history, chains_made, questions_asked>>
        \/ /\ ConversationManager_is_initialized
           /\ ConversationCall("ask", "ConversationError", Null)
           /\ \/ _last_source_docs' = DocList(<<>>)
              \/ _last_source_docs' = DocList(_retriever.vectorstore.texts)
           /\ UNCHANGED <<top_n_given, _chain, _retriever, _llm, _message_history,
                          _chat_history, chains_made, questions_asked>>
        \/ /\ ConversationManager_is_initialized
           /\ \E answer \in Answers, validate_response \in BOOLEAN :
                  AskAnswered(question, answer,
                              validate_response => Len(answer) >= min_response_length,
                              _retriever.vectorstore.texts)

\* ask(question, validate_response): without a chain it raises at once;
\* with one, the retrieval or the model may raise, and nothing is recorded
Ask ==
    \E question \in Questions :
        \/ /\ ~ConversationManager_is_initialized
           /\ ConversationCall("ask", "ConversationError", Null)
           /\ UNCHANGED <<top_n_given, convVars, chains_made, questions_asked>>
        \/ /\ ConversationManager_is_initialized
           /\ ConversationCall("ask", "ConversationError", Null)
           /\ \/ _last_source_docs' = DocList(<<>>)
              \/ _last_source_docs' = DocList(_retriever.vectorstore.texts)
           /\ UNCHANGED <<top_n_given, _chain, _retriever, _llm, _message_history,
                          _chat_history, chains_made, questions_asked>>
        \/ /\ ConversationManager_is_initialized
           /\ \E answer \in Answers, validate_response \in BOOLEAN :
                  AskAnswered(question, answer,
                              validate_response => Len(answer) >= min_response_length,
                              _retriever.vectorstore.texts)

\* one entry of the chat history as the two entries of the display
FormattedEntry(entry) ==
    <<[role |-> "user", content |-> entry.question],
      [role |-> "assistant", content |-> entry.answer]>>

get_formatted_history ==
    Flatten([k \in 1..Len(_chat_history) |-> FormattedEntry(_chat_history[k])])

GetFormattedHistory ==
    /\ ConversationCall("get_formatted_history", "", get_formatted_history)
    /\ UNCHANGED <<top_n_given, convVars, chains_made, questions_asked>>

\* (a slip: self._message_history = [] of line 219 is left out)
ClearHistory_keeping_messages ==
    /\ ConversationCall("clear_history", "", Null)
    /\ _chat_history' = <<>>
    /\ UNCHANGED <<top_n_given, _chain, _retriever, _llm, _last_source_docs, chains_made,
                   _message_history>>
    /\ questions_asked' = <<>>

ClearHistory ==
    /\ ConversationCall("clear_history", "", Null)
    /\ _chat_history' = <<>>
    /\ _message_history' = <<>>
    /\ UNCHANGED <<top_n_given, _chain, _retriever, _llm, _last_source_docs, chains_made>>
    /\ questions_asked' = <<>>

\* (a slip: self._chain = None is left out)
Reset_keeping_chain ==
    /\ ConversationCall("reset", "", Null)
    /\ _retriever' = Null
    /\ _llm' = Null
    /\ _message_history' = <<>>
    /\ _chat_history' = <<>>
    /\ chains_made' = 0
    /\ questions_asked' = <<>>
    /\ UNCHANGED <<top_n_given, _chain, _last_source_docs>>

Reset ==
    /\ ConversationCall("reset", "", Null)
    /\ _chain' = Null
    /\ _retriever' = Null
    /\ _llm' = Null
    /\ _message_history' = <<>>
    /\ _chat_history' = <<>>
    /\ chains_made' = 0
    /\ questions_asked' = <<>>
    /\ UNCHANGED _last_source_docs

InitConversation ==
    /\ InitCommon
    /\ chunk_size = DefaultChunkSize

NextConversation ==
    \/ CreateChain
    \/ Ask
    \/ GetFormattedHistory
    \/ ClearHistory
    \/ Reset

SpecConversation == InitConversation /\ [][NextConversation]_vars

(***************************************************************************)
(* PDFProcessor                                                            *)
(***************************************************************************)
\* a PDF as pdfplumber sees it: it opens or not, and each page has a text
\* ('' where extract_text finds none)
PaperFile == [name |-> <<"a", ".", "p", "d", "f">>, pages |-> <<<<"x">>, <<>>, <<"y", " ", "z">>>>, broken |-> FALSE]
ScanFile == [name |-> <<"s", ".", "p", "d", "f">>, pages |-> <<<<>>>>, broken |-> FALSE]
BrokenFile == [name |-> <<"b", ".", "p", "d", "f">>, pages |-> <<>>, broken |-> TRUE]
Files == {PaperFile, ScanFile, BrokenFile}

\* text += page_text + "\n"  for the pages that have text
page_line(page_text) == IF page_text # <<>> THEN page_text \o <<"\n">> ELSE <<>>
file_text(pdf_file) ==
    Flatten([k \in 1..Len(pdf_file.pages) |-> page_line(pdf_file.pages[k])])

\* @property processed_count, failed_files
processed_count == _processed_count
failed_files == _failed_files

\* the variables no PDFProcessor call touches
notPdfVars == <<text, npieces, chunkVars, previous, returned, storeVars, convVars,
                stores_made, chains_made, questions_asked>>

\* extract_text_from_file(pdf_file), called on its own
ExtractTextFromFile ==
    /\ pc # "loop"
    /\ ncalls < MaxPdfCalls
    /\ ncalls' = ncalls + 1
    /\ op' = "extract_text_from_file"
    /\ \E pdf_file \in Files :
           IF pdf_file.broken
           THEN /\ _failed_files' = Append(_failed_files, pdf_file.name)
                /\ raised' = "PDFProcessingError"
                /\ UNCHANGED <<top_n_given, _processed_count, result>>
           ELSE /\ _processed_count' = _processed_count + 1
                /\ raised' = ""
                /\ result' = file_text(pdf_file)
                /\ UNCHANGED _failed_files
    /\ UNCHANGED <<top_n_given, notPdfVars, pc, pdf_files, continue_on_error, file_idx,
                   combined_text>>

\* reset_stats()
ResetStats ==
    /\ pc # "loop"
    /\ ncalls < MaxPdfCalls
    /\ ncalls' = ncalls + 1
    /\ op' = "reset_stats"
    /\ raised' = ""
    /\ _processed_count' = 0
    /\ _failed_files' = <<>>
    /\ UNCHANGED <<top_n_given, notPdfVars, pc, result, pdf_files, continue_on_error, file_idx,
                   combined_text>>

\* the batches extract_text_from_files is called with
RECURSIVE FileLists(_)
FileLists(n) ==
    IF n = 0 THEN {<<>>}
    ELSE FileLists(n - 1) \cup
         {Append(fs, f) : fs \in {gs \in FileLists(n - 1) : Len(gs) = n - 1}, f \in Files}

\* (a slip: self.reset_stats() is left out)
ExtractTextFromFiles_accumulating ==
    /\ pc # "loop"
    /\ ncalls < MaxPdfCalls
    /\ ncalls' = ncalls + 1
    /\ op' = "extract_text_from_files"
    /\ pc' = "loop"
    /\ raised' = ""
    /\ \E files \in FileLists(MaxFiles), flag \in BOOLEAN :
           /\ pdf_files' = files
           /\ continue_on_error' = flag
    /\ file_idx' = 1
    /\ combined_text' = <<>>
    /\ UNCHANGED <<top_n_given, notPdfVars, result, _processed_count, _failed_files>>

\* extract_text_from_files(pdf_files, continue_on_error) up to its loop
ExtractTextFromFiles ==
    /\ pc # "loop"
    /\ ncalls < MaxPdfCalls
    /\ ncalls' = ncalls + 1
    /\ op' = "extract_text_from_files"
    /\ pc' = "loop"
    /\ raised' = ""
    /\ \E files \in FileLists(MaxFiles), flag \in BOOLEAN :
           /\ pdf_files' = files
           /\ continue_on_error' = flag
    /\ file_idx' = 1
    /\ combined_text' = <<>>
    /\ _processed_count' = 0
    /\ _failed_files' = <<>>
    /\ UNCHANGED <<top_n_given, notPdfVars, result>>

\* one iteration of  for pdf_file in pdf_files  on a file that is read
FileRead ==
    /\ pc = "loop"
    /\ op = "extract_text_from_files"
    /\ file_idx <= Len(pdf_files)
    /\ ~pdf_files[file_idx].broken
    /\ _processed_count' = _processed_count + 1
    /\ combined_text' = combined_text \o file_text(pdf_files[file_idx]) \o <<"\n", "\n">>
    /\ file_idx' = file_idx + 1
    /\ UNCHANGED <<top_n_given, notPdfVars, op, pc, result, raised, ncalls, _failed_files,
                   pdf_files, continue_on_error>>

\* one iteration on a file that fails: skipped, or the error is raised again
FileFailed ==
    /\ pc = "loop"
    /\ op = "extract_text_from_files"
    /\ file_idx <= Len(pdf_files)
    /\ pdf_files[file_idx].broken
    /\ _failed_files' = Append(_failed_files, pdf_files[file_idx].name)
    /\ IF continue_on_error
       THEN /\ file_idx' = file_idx + 1
            /\ UNCHANGED <<top_n_given, pc, raised>>
       ELSE /\ pc' = "done"
            /\ raised' = "PDFProcessingError"
            /\ UNCHANGED file_idx
    /\ UNCHANGED <<top_n_given, notPdfVars, op, result, ncalls, _processed_count, pdf_files,
                   continue_on_error, combined_text>>

\* after the loop: return combined_text
FilesReturn ==
    /\ pc = "loop"
    /\ op = "extract_text_from_files"
    /\ file_idx > Len(pdf_files)
    /\ pc' = "done"
    /\ result' = combined_text
    /\ UNCHANGED <<top_n_given, notPdfVars, op, raised, ncalls, pdfVars>>

get_processing_summary ==
    [processed_count |-> _processed_count,
     failed_count |-> Len(_failed_files),
     failed_files |-> _failed_files,
     success |-> Len(_failed_files) = 0]

GetProcessingSummary ==
    /\ pc # "loop"
    /\ ncalls < MaxPdfCalls
    /\ ncalls' = ncalls + 1
    /\ op' = "get_processing_summary"
    /\ raised' = ""
    /\ result' = get_processing_summary
    /\ UNCHANGED <<top_n_given, notPdfVars, pc, pdfVars>>

InitPdf ==
    /\ InitCommon
    /\ chunk_size = DefaultChunkSize

NextPdf ==
    \/ ExtractTextFromFile
    \/ ResetStats
    \/ ExtractTextFromFiles
    \/ FileRead
    \/ FileFailed
    \/ FilesReturn
    \/ GetProcessingSummary

SpecPdf == InitPdf /\ [][NextPdf]_vars

(***************************************************************************)
(* PaperAnalyzer.extract_citations applied to a document                   *)
(***************************************************************************)
EightCitations == <<"[", "A", "a", "1", "9", "9", "9", "]", "[", "A", "b", "1", "9", "9", "9", "]", "[", "A", "c", "1", "9", "9", "9", "]", "[", "A", "d", "1", "9", "9", "9", "]", "[", "A", "e", "1", "9", "9", "9", "]", "[", "A", "f", "1", "9", "9", "9", "]", "[", "A", "g", "1", "9", "9", "9", "]", "[", "A", "h", "1", "9", "9", "9", "]">>
EightMore == <<"[", "B", "a", "1", "9", "9", "9", "]", "[", "B", "b", "1", "9", "9", "9", "]", "[", "B", "c", "1", "9", "9", "9", "]", "[", "B", "d", "1", "9", "9", "9", "]", "[", "B", "e", "1", "9", "9", "9", "]", "[", "B", "f", "1", "9", "9", "9", "]", "[", "B", "g", "1", "9", "9", "9", "]", "[", "B", "h", "1", "9", "9", "9", "]">>
ThreeStyles == <<"(", "K", "i", "m", ",", " ", "2", "0", "1", "8", ")", " ", "K", "i", "m", " ", "e", "t", " ", "a", "l", ".", " ", "(", "2", "0", "1", "8", ")", " ", "[", "K", "i", "m", " ", "2", "0", "1", "8", "]", " ">>
CitedAgain == <<"s", "e", "e", " ", "(", "A", "h", ",", " ", "1", "9", "9", "9", ")", " ", "a", "n", "d", " ", "[", "B", "h", " ", "1", "9", "9", "9", "]", ",", " ", "n", "o", "t", " ", "(", "a", "h", ",", " ", "1", "9", "9", "9", ")", ".", " ">>

CitationPieces == {EightCitations, EightMore, ThreeStyles, CitedAgain}

InitCitations ==
    /\ InitCommon
    /\ chunk_size = DefaultChunkSize

ExtractCitations == Call("extract_citations", extract_citations(text))

NextCitations ==
    \/ \E p \in CitationPieces : AppendPiece(p, MaxCitationPieces)
    \/ ExtractCitations

SpecCitations == InitCitations /\ [][NextCitations]_vars

(***************************************************************************)
(* The entry points called on empty and nearly empty documents             *)
(***************************************************************************)
DefaultPieces == {<<" ">>, <<"\n">>, AbstractLine, <<"w", ".", " ">>}

InitDefaults ==
    /\ InitCommon
    /\ chunk_size = DefaultChunkSize

\* processor.clean_text(None)
CleanTextNone ==
    /\ npieces = 0
    /\ Call("clean_text(None)", clean_text_optional(NoneStr))

\* document_analyzer.analyze_document(text)
AnalyzeDocumentCall == Call("analyze_document", analyze_document(text))

NextDefaults ==
    \/ \E p \in DefaultPieces : AppendPiece(p, MaxDefaultPieces)
    \/ CreateChunks
    \/ HeaderSegment
    \/ BodySegment
    \/ FinishChunks
    \/ CleanText
    \/ CleanTextNone
    \/ AnalyzeDocumentCall

SpecDefaults == InitDefaults /\ [][NextDefaults]_vars

(***************************************************************************)
(* The passes over one document: create_chunks, analyze_paper and         *)
(* analyze_document, called in any order on a TextProcessor, a            *)
(* PaperAnalyzer and a DocumentAnalyzer that share one Config             *)
(***************************************************************************)
PassPieces == {AbstractLine, <<"g", "a", "n", " ">>, <<"w", ".", " ">>}

InitPasses ==
    /\ InitCommon
    /\ chunk_size = LargeChunkSize

NoPassStarted == pc = "input" /\ \A c \in PassCalls : returned[c] = Unset

\* the document grows until the first pass is called
AppendPassPiece(p) == NoPassStarted /\ AppendPiece(p, MaxPassPieces)

\* (a slip: the pass sets chunk_size on the Config it shares with the chunker)
ReturnFrom_resizing(call, value) ==
    /\ returned[call] = Unset
    /\ returned' = [returned EXCEPT ![call] = value]
    /\ chunk_size' = SmallChunkSize
    /\ UNCHANGED <<top_n_given, text, npieces, op, pc, chunk_text, sections, idx,
                   current_chunk_words, current_length, current_offset,
                   current_section, chunks, result, previous, managerVars>>

\* a call returns its value; the document, the Config and the chunker's
\* run are left as they are
ReturnFrom(call, value) ==
    /\ returned[call] = Unset
    /\ returned' = [returned EXCEPT ![call] = value]
    /\ UNCHANGED <<top_n_given, text, npieces, op, pc, chunkVars, result, previous, managerVars>>

\* paper_analyzer.analyze_paper(text)
AnalyzePaper ==
    \E order \in IterationOrders(found_terms(text)) :
        ReturnFrom("analyze_paper", analyze_paper(text, order))

\* document_analyzer.analyze_document(text)
AnalyzeDocument == ReturnFrom("analyze_document", analyze_document(text))

NextPasses ==
    \/ \E p \in PassPieces : AppendPassPiece(p)
    \/ CreateChunks
    \/ HeaderSegment
    \/ BodySegment
    \/ FinishChunks
    \/ AnalyzePaper
    \/ AnalyzeDocument

SpecPasses == InitPasses /\ [][NextPasses]_vars

(***************************************************************************)
(* Properties of create_chunks                                             *)
(***************************************************************************)
Returned == pc = "done" /\ op = "create_chunks"

\* C1: every chunk returned by create_chunks(text, return_metadata=True)
\* has 0 <= start_offset <= end_offset <= len(text).
C1_OffsetsWithinText ==
    Returned =>
        \A i \in 1..Len(chunks) :
            /\ 0 <= chunks[i].start_offset
            /\ chunks[i].start_offset <= chunks[i].end_offset
            /\ chunks[i].end_offset <= Len(chunk_text)

\* C2: offset provenance: the words of text[start_offset:end_offset] are
\* the words of the chunk's content, so two chunks with different content
\* never report the same start_offset.
C2_OffsetProvenance ==
    Returned =>
        /\ \A i \in 1..Len(chunks) :
               split(slice(chunk_text, chunks[i].start_offset,
                           chunks[i].end_offset))
               = split(chunks[i].content)
        /\ \A i, k \in 1..Len(chunks) :
               chunks[i].content # chunks[k].content
               => chunks[i].start_offset # chunks[k].start_offset

\* C3: start offsets are non-decreasing in output order: for all i < j,
\* chunks[i].start_offset <= chunks[j].start_offset.
C3_StartOffsetsNonDecreasing ==
    \A i, k \in 1..Len(chunks) :
        i < k => chunks[i].start_offset <= chunks[k].start_offset

\* C3 witness: a returned list over two headers whose offsets strictly grow
C3_Witness ==
    /\ Returned
    /\ Len(chunks) >= 3
    /\ chunks[1].start_offset < chunks[2].start_offset
    /\ chunks[2].start_offset < chunks[3].start_offset

MaxHeaderLen == Max({Len(academic_headers[h]) : h \in 1..Len(academic_headers)})

\* the slack of the size budget: a header segment and its separator
ChunkSlack == MaxHeaderLen + 1

\* test_chunk_size_limit:  len(chunk) <= chunk_size + 100
TestSlack == 100

NoLongWord(t) == \A k \in 1..Len(split(t)) : Len(split(t)[k]) <= chunk_size

\* C4: when no whitespace-delimited word of the text is longer than
\* chunk_size, every chunk has len(content) <= chunk_size + slack, the
\* slack (a header and its separator) being within the 100 characters the
\* test allows; chunks that begin with a section header included.
C4_SizeBudget ==
    NoLongWord(chunk_text) =>
        /\ ChunkSlack <= TestSlack
        /\ \A i \in 1..Len(chunks) :
               Len(chunks[i].content) <= chunk_size + ChunkSlack

\* C4 witness: the words were split over several chunks and a chunk that
\* begins with a section header is longer than chunk_size
C4_Witness ==
    /\ Returned
    /\ NoLongWord(chunk_text)
    /\ Len(chunks) >= 2
    /\ \E i \in 1..Len(chunks) :
           /\ chunks[i].section # None
           /\ section_match(split(chunks[i].content)[1])
           /\ Len(chunks[i].content) > chunk_size

\* the segments of the raw text that are recognized headers on their own
\* line and are followed by body text
HeaderLinesWithBody(t) ==
    LET segs == header_split(t)
    IN {k \in 1..Len(segs) :
          /\ k % 2 = 0
          /\ k < Len(segs)
          /\ split(segs[k + 1]) # <<>>}

\* C10: in process(text), whenever the raw text has a recognized header on
\* its own line followed by body text, a chunk begins at that header and is
\* attributed to that section.
C10_ProcessAlignsToHeaders ==
    (pc = "done" /\ op = "process") =>
        \A k \in HeaderLinesWithBody(text) :
            LET header == lower(header_split(text)[k])
            IN \E i \in 1..Len(chunks) :
                   /\ split(chunks[i].content)[1] = header
                   /\ chunks[i].section = capitalize(header)

\* the indices at which a line of t starts
LineStarts(t) == {p \in 1..(Len(t) + 1) : p = 1 \/ t[p - 1] = "\n"}

\* the line of t that starts at index p, without its newline
LineAt(t, p) ==
    SubSeq(t, p, Min({q \in p..(Len(t) + 1) : q > Len(t) \/ t[q] = "\n"}) - 1)

\* w is one of the academic headers, in any case
IsHeaderToken(w) ==
    \E h \in 1..Len(academic_headers) : lower(w) = lower(academic_headers[h])

\* the header tokens that stand on a line of their own, in text order
HeaderLines(t) ==
    LET P == {p \in LineStarts(t) : IsHeaderToken(strip(LineAt(t, p)))}
    IN [k \in 1..Cardinality(P) |-> strip(LineAt(t, Nth(P, k)))]

\* the first word of every chunk, in output order
FirstWords(cs) == [i \in 1..Len(cs) |-> split(cs[i].content)[1]]

\* hs is a subsequence of ws
IsSubsequence(hs, ws) ==
    \E f \in [1..Len(hs) -> 1..Len(ws)] :
        /\ \A k \in 1..Len(hs) : ws[f[k]] = hs[k]
        /\ \A j, k \in 1..Len(hs) : j < k => f[j] < f[k]

\* C11: the chunker never merges sections: every header token on a line of
\* its own starts a chunk of its own (the header lines are, in order, first
\* words of distinct chunks), and a text that is one header line and
\* nothing else gives exactly one chunk whose content is that header.
C11_HeadersStartChunks ==
    Returned =>
        /\ IsSubsequence(HeaderLines(chunk_text), FirstWords(chunks))
        /\ (Len(HeaderLines(chunk_text)) = 1 /\ Len(split(chunk_text)) = 1)
               => (Len(chunks) = 1 /\ chunks[1].content = strip(chunk_text))

(***************************************************************************)
(* Properties of the normalizers                                           *)
(***************************************************************************)
\* C6: normalization is idempotent: clean_text(clean_text(x)) =
\* clean_text(x) and clean_pdf_text(clean_pdf_text(x)) = clean_pdf_text(x).
C6_NormalizeIdempotent ==
    op \in {"clean_text_again", "clean_pdf_text_again"} => result = text

(***************************************************************************)
(* Properties of extract_sections                                          *)
(***************************************************************************)
\* C7: the sections returned by extract_sections(text) are sorted by
\* start_pos and never overlap: adjacent sections s1, s2 have
\* s1.start_pos <= s1.end_pos <= s2.start_pos, and the last section ends at
\* len(text).
C7_SectionsOrdered ==
    op = "extract_sections" =>
        /\ \A i \in 1..(Len(result) - 1) :
               /\ result[i].start_pos <= result[i].end_pos
               /\ result[i].end_pos <= result[i + 1].start_pos
               /\ result[i].start_pos <= result[i + 1].start_pos
        /\ result[Len(result)].end_pos = Len(text)

\* C7 witness: three sections were found, the second by a pattern that
\* comes earlier in SECTION_PATTERNS than the first one's
C7_Witness ==
    /\ op = "extract_sections"
    /\ Len(result) = 3
    /\ result[1].title = <<"R", "e", "s", "u", "l", "t", "s">>
    /\ result[2].title = <<"A", "b", "s", "t", "r", "a", "c", "t">>
    /\ result[1].start_pos < result[2].start_pos

\* C26: for every section returned by extract_sections(text), content is
\* text[start_pos:end_pos] with the surrounding whitespace removed, whatever
\* its length.
C26_ContentIsWholeSpan ==
    op = "extract_sections" =>
        \A i \in 1..Len(result) :
            result[i].content = strip(slice(text, result[i].start_pos, result[i].end_pos))

(***************************************************************************)
(* Properties of extract_figures_tables_equations                          *)
(***************************************************************************)
\* C8: the returned list is deduplicated by normalized title: no two
\* returned items have the same title compared case-insensitively, so of
\* several matches for the same figure only the first is returned.
C8_FiguresDeduplicated ==
    op = "extract_figures_tables_equations" =>
        \A i, k \in 1..Len(result) :
            i # k => lower(result[i].title) # lower(result[k].title)

(***************************************************************************)
(* Properties of extract_technical_terms                                   *)
(***************************************************************************)
\* C5: every term returned by extract_technical_terms(text) has
\* frequency >= 2; a candidate that occurs only once is not returned.
C5_TermFrequencyFloor ==
    op = "extract_technical_terms" =>
        \A i \in 1..Len(result) : result[i].frequency >= 2

\* C12: the analysis is deterministic: two runs of extract_technical_terms
\* on the same text return identical results, the order of terms of equal
\* frequency included.
C12_TermsDeterministic ==
    op = "extract_technical_terms_again" => result = previous

\* C27: no two terms returned by extract_technical_terms are equal when
\* compared case-insensitively, and the frequencies never increase along the
\* list.
C27_TermsCaseFoldedOnce ==
    op = "extract_technical_terms" =>
        /\ \A i, k \in 1..Len(result) :
               i # k => lower(result[i].term) # lower(result[k].term)
        /\ \A i \in 1..(Len(result) - 1) :
               result[i].frequency >= result[i + 1].frequency

(***************************************************************************)
(* Properties of _extract_summary                                          *)
(***************************************************************************)
\* w occurs in s
Contains(s, w) == \E i \in 1..(Len(s) - Len(w) + 1) : MatchLit(s, i, w)

\* the text between an 'Abstract' header line that opens the text and the
\* first 'Introduction' header line after it (<<>> if there is none)
AbstractSpan(t) ==
    LET P == {p \in 1..Len(t) : MatchLit(t, p, IntroductionHeader)}
    IN IF MatchLit(t, 1, AbstractHeader) /\ P # {}
       THEN SubSeq(t, Len(AbstractHeader) + 1, Min(P) - 1)
       ELSE <<>>

\* the 'Abstract' header line together with the abstract span
AbstractPart(t) == AbstractHeader \o AbstractSpan(t)

\* the span consists of sentences: it ends a sentence and holds no header line
AbstractSentences(span) ==
    /\ strip(span) # <<>>
    /\ strip(span)[Len(strip(span))] = "."
    /\ ~Contains(span, AbstractHeader)
    /\ ~Contains(span, <<"\n", "\n">>)

\* the Introduction header is followed by the Introduction's text
FollowedByBody(t) ==
    \E p \in 1..Len(t) :
        /\ MatchLit(t, p, IntroductionHeader)
        /\ p + Len(IntroductionHeader) <= Len(t)
        /\ ~IsSpace(t[p + Len(IntroductionHeader)])

\* C9: when the text has an 'Abstract' header line followed by abstract
\* sentences and then an 'Introduction' header, _extract_summary returns
\* only sentences of the abstract span and none of the Introduction's,
\* also when the abstract is short: every sentence of the result lies
\* before the 'Introduction' header.
C9_SummaryFromAbstract ==
    (/\ op = "_extract_summary"
     /\ AbstractSentences(AbstractSpan(text))
     /\ FollowedByBody(text)) =>
        \A k \in 1..Len(sentence_split(result)) :
            Contains(AbstractPart(text), sentence_split(result)[k])
(***************************************************************************)
(* Properties of the entry points on empty input                           *)
(***************************************************************************)
\* C13: an empty or whitespace-only text never raises and gives the empty
\* defaults: analyze_document returns stats.words = 0, summary '' and
\* keywords []; create_chunks returns []; clean_text returns '', for None
\* too.
C13_EmptyDefaults ==
    /\ raised = ""
    /\ strip(text) = <<>> =>
           /\ op = "analyze_document" =>
                  /\ result.stats.words = 0
                  /\ result.summary = <<>>
                  /\ result.keywords = <<>>
           /\ Returned => chunks = <<>>
           /\ op = "clean_text" => result = <<>>
    /\ op = "clean_text(None)" => result = <<>>

\* C13 witness: analyze_document has returned on a text of whitespace only
C13_Witness ==
    /\ op = "analyze_document"
    /\ Len(text) >= 2
    /\ strip(text) = <<>>
    /\ result.stats.reading_time = <<"0", " ", "m", "i", "n">>
(***************************************************************************)
(* Properties of _fix_reversed_text                                        *)
(***************************************************************************)
\* the tokens of a document that the detection looks at
Sampled(ws) == slice(ws, 0, IF Len(ws) < 80 THEN Len(ws) ELSE 80)
Backward(ws) == [k \in 1..Len(ws) |-> reversed(ws[k])]
StrongEvidenceIn(ws, forward, backward) ==
    /\ Len(ws) >= 10
    /\ backward > 2 * forward
    /\ backward > 3
StrongEvidence(t) ==
    StrongEvidenceIn(split(t), hits(Sampled(split(t))),
                     hits(Backward(Sampled(split(t)))))
UnreversedOnlyOn(t, out, strong, forward, backward) ==
    /\ ~strong => out = t
    /\ strong => split(out) = Backward(split(t))
    /\ forward >= backward => out = t

C15_FigureCaptionsRemoved ==
    (op = "clean_text" /\ Contains(text, FigureCaption)) =>
        ~Contains(result, <<"f", "i", "g", "u", "r", "e", " ", "1", ":">>)
(***************************************************************************)
(* Read-back order of the chunks                                           *)
(***************************************************************************)
\* the words of the chunk contents, read in output order
WordsReadBack(cs) == Flatten([i \in 1..Len(cs) |-> split(cs[i].content)])

\* C16: the sequence of whitespace-delimited words obtained by
\* concatenating the contents of the chunks returned by create_chunks, in
\* output order, equals the sequence of whitespace-delimited words of the
\* input text: no word is dropped, duplicated or reordered.
C16_WordsPreserved ==
    Returned => WordsReadBack(chunks) = split(chunk_text)

\* C16 witness: a returned list of at least three chunks, one of them opened
\* by a header and one cut by the size budget, that reads back as the input
C16_Witness ==
    /\ Returned
    /\ Len(chunks) >= 3
    /\ chunks[1].section = None
    /\ chunks[Len(chunks)].section # None
    /\ chunks[Len(chunks) - 1].section = chunks[Len(chunks)].section
    /\ Len(split(chunk_text)) > Len(chunks)
    /\ WordsReadBack(chunks) = split(chunk_text)
(***************************************************************************)
(* Independence of the passes over one document                            *)
(***************************************************************************)
\* the chunker's locals when create_chunks runs with no other pass around:
\* before the loop, after one more segment, after the first n segments
ChunkerStart ==
    [words |-> <<>>, length |-> 0, offset |-> 0, section |-> None, chunks |-> <<>>]

AfterHeader(st, section) ==
    [words   |-> <<section>>,
     length  |-> IF st.words # <<>> THEN 0 ELSE st.length,
     offset  |-> st.offset + Len(section) + 1,
     section |-> capitalize(section),
     chunks  |-> IF st.words # <<>>
                 THEN flush(st.chunks, st.words, st.offset, st.section)
                 ELSE st.chunks]

Packed(st, packed) ==
    [words |-> packed.w, length |-> packed.len, offset |-> st.offset,
     section |-> st.section, chunks |-> packed.c]

AfterBody(st, section, size) ==
    Packed(st, pack_words(split(section),
                          [w |-> st.words, len |-> st.length, c |-> st.chunks],
                          st.offset, st.section, size))

AfterSegment(st, section, size) ==
    IF section_match(section) THEN AfterHeader(st, section)
    ELSE AfterBody(st, section, size)

RECURSIVE AloneAfter(_, _, _)
AloneAfter(segments, n, size) ==
    IF n = 0 THEN ChunkerStart
    ELSE AfterSegment(AloneAfter(segments, n - 1, size), segments[n], size)

Flushed(st) ==
    IF st.words # <<>> THEN flush(st.chunks, st.words, st.offset, st.section)
    ELSE st.chunks

\* what create_chunks(t) returns when it runs alone
create_chunks_alone(t, size) ==
    IF t = <<>> THEN <<>>
    ELSE Flushed(AloneAfter(header_split(t), Len(header_split(t)), size))

ChunkerNow ==
    [words |-> current_chunk_words, length |-> current_length,
     offset |-> current_offset, section |-> current_section, chunks |-> chunks]

\* C17: in any interleaving of create_chunks, analyze_paper and
\* analyze_document over the same text on shared objects, each pass returns
\* what it returns when run alone, and no pass changes state another reads:
\* the text and the Config stay as they were, and the chunker's run is at
\* every step where its run alone would be.
C17_PassesIndependent ==
    /\ chunk_size = LargeChunkSize
    /\ pc # "input" => chunk_text = text
    /\ pc = "loop" =>
           ChunkerNow = AloneAfter(header_split(text), idx - 1, LargeChunkSize)
    /\ Returned => chunks = create_chunks_alone(text, LargeChunkSize)
    /\ returned["analyze_document"] # Unset =>
           returned["analyze_document"] = analyze_document(text)
    /\ returned["analyze_paper"] # Unset =>
           \E order \in IterationOrders(found_terms(text)) :
               returned["analyze_paper"] = analyze_paper(text, order)

\* C17 witness: analyze_paper has returned its terms, analyze_document has
\* not been called yet and the chunker is in the middle of its loop, a chunk
\* already flushed
C17_Witness ==
    /\ pc = "loop"
    /\ idx >= 2
    /\ idx <= Len(sections)
    /\ chunks # <<>>
    /\ returned["analyze_paper"] # Unset
    /\ returned["analyze_paper"].terms # <<>>
    /\ returned["analyze_document"] = Unset
(***************************************************************************)
(* Properties of the VectorStoreManager                                    *)
(***************************************************************************)
\* the step is a call of the method
Calls(method) == op' = method /\ ncalls' = ncalls + 1

StoreQueries == {"add_texts", "similarity_search", "as_retriever", "save_local"}

\* C18: while no create_vectorstore or load_local has succeeded, add_texts,
\* similarity_search, as_retriever and save_local each raise
\* VectorStoreError and is_initialized stays False; is_initialized is True
\* exactly when a vector store object is held.
C18_UninitializedStoreRaises ==
    /\ VectorStoreManager_is_initialized <=> _vectorstore.kind = "FAISS"
    /\ stores_made = 0 => ~VectorStoreManager_is_initialized
    /\ (stores_made = 0 /\ op \in StoreQueries) => raised = "VectorStoreError"

\* C18 witness: as_retriever has raised on a manager whose only
\* create_vectorstore failed after the embedding model had been created
C18_Witness ==
    /\ stores_made = 0
    /\ _embedding_model # Null
    /\ op = "as_retriever"
    /\ raised = "VectorStoreError"
    /\ ~VectorStoreManager_is_initialized

\* the held embedding model is the one the held vector store was built with
HeldModelBuiltStore ==
    VectorStoreManager_is_initialized => _embedding_model = _vectorstore.embedding

\* a create_vectorstore call that raises changes nothing the manager holds
FailedCreateChangesNothing ==
    Calls("create_vectorstore") /\ raised' \in {"ValueError", "VectorStoreError"} =>
        UNCHANGED <<_vectorstore, _embedding_model>>

\* C29: a create_vectorstore call that fails (ValueError for empty chunks,
\* VectorStoreError otherwise) leaves is_initialized, the held vector store
\* and the held embedding model as they were, so whenever the manager is
\* initialized the held embedding model is the one the held vector store was
\* built with.
C29_FailedCreateLeavesState ==
    /\ HeldModelBuiltStore
    /\ [][FailedCreateChangesNothing /\ HeldModelBuiltStore']_vars
(***************************************************************************)
(* Properties of the ConversationManager                                   *)
(***************************************************************************)
\* C19: ask raises ConversationError and records nothing whenever no
\* create_chain has succeeded since construction or since the last reset();
\* a create_chain that raises ConversationError leaves is_initialized as it
\* was before the call.
C19_AskNeedsChain ==
    [][/\ (Calls("ask") /\ chains_made = 0) =>
              (raised' = "ConversationError" /\ UNCHANGED convVars)
       /\ (Calls("create_chain") /\ raised' = "ConversationError") =>
              (ConversationManager_is_initialized'
                   <=> ConversationManager_is_initialized)]_vars

\* C19 witness: ask has raised on a manager whose create_chain failed after
\* the model and the retriever had been stored
C19_Witness ==
    /\ op = "ask"
    /\ raised = "ConversationError"
    /\ chains_made = 0
    /\ _llm # Null
    /\ _retriever # Null
    /\ ~ConversationManager_is_initialized
    /\ _message_history = <<>>

\* C20: reset(), called in any reachable state, leaves chain None,
\* is_initialized False and chat_history == []; from then on every ask
\* raises ConversationError, and the manager becomes initialized again only
\* by a create_chain that succeeds.
C20_ResetRestoresInitial ==
    [][/\ Calls("reset") =>
              /\ raised' = ""
              /\ _chain' = Null
              /\ ~ConversationManager_is_initialized'
              /\ chat_history' = <<>>
       /\ (~ConversationManager_is_initialized /\ Calls("ask")) =>
              /\ raised' = "ConversationError"
              /\ ~ConversationManager_is_initialized'
       /\ (~ConversationManager_is_initialized /\ ConversationManager_is_initialized') =>
              /\ Calls("create_chain")
              /\ raised' = ""]_vars

\* C20 witness: reset() has been called on a manager whose chain had
\* answered a question from retrieved documents
C20_Witness ==
    /\ op = "reset"
    /\ _last_source_docs = DocList(<<<<"a">>>>)
    /\ _chain = Null
    /\ chat_history = <<>>

\* C21: chat_history holds exactly one entry per ask that succeeded since the
\* last clear_history or reset, in ask order, each with the asked question;
\* get_formatted_history returns two entries per chat_history entry, role
\* 'user' then 'assistant'; clear_history empties the history and leaves the
\* chain initialised.
C21_ChatHistoryTracksAsks ==
    /\ Len(chat_history) = Len(questions_asked)
    /\ \A k \in 1..Len(chat_history) : chat_history[k].question = questions_asked[k]
    /\ op = "get_formatted_history" =>
           /\ Len(result) = 2 * Len(chat_history)
           /\ \A k \in 1..Len(chat_history) :
                  /\ result[2 * k - 1].role = "user"
                  /\ result[2 * k].role = "assistant"
    /\ op = "clear_history" =>
           /\ chat_history = <<>>
           /\ ConversationManager_is_initialized <=> chains_made > 0

\* C21 witness: get_formatted_history has returned four entries for two
\* different questions
C21_Witness ==
    /\ op = "get_formatted_history"
    /\ Len(chat_history) = 2
    /\ chat_history[1].question # chat_history[2].question
    /\ Len(result) = 4
    /\ result[3].content = chat_history[2].question
(***************************************************************************)
(* Properties of the PDFProcessor                                          *)
(***************************************************************************)
\* the positions of the files of a batch that cannot be read
BrokenAt(files) == {k \in 1..Len(files) : files[k].broken}

BatchReturned ==
    op = "extract_text_from_files" /\ pc = "done" /\ raised = ""
BatchRaised ==
    op = "extract_text_from_files" /\ pc = "done" /\ raised = "PDFProcessingError"

\* the messages kept for the model are, entry by entry of the chat history,
\* the question as a human message and then the answer as an AI message
PairedHistories ==
    /\ Len(_message_history) = 2 * Len(_chat_history)
    /\ \A k \in 1..Len(_chat_history) :
           /\ _message_history[2 * k - 1] = HumanMessage(_chat_history[k].question)
           /\ _message_history[2 * k] = AIMessage(_chat_history[k].answer)

\* C28: after any sequence of create_chain, ask, clear_history and reset the
\* message history has two messages, human then AI, per chat_history entry,
\* and an ask that raises ConversationError leaves both histories as they
\* were.
C28_HistoriesPaired ==
    /\ PairedHistories
    /\ [][/\ PairedHistories'
          /\ Calls("ask") /\ raised' = "ConversationError" =>
                 UNCHANGED <<_message_history, _chat_history>>]_vars

\* C28 witness: the chain raised on the second question: the call raised
\* ConversationError after an attempted retrieval of the sources, and the
\* histories hold the first question and its answer only
C28_Witness ==
    /\ op = "ask"
    /\ raised = "ConversationError"
    /\ ConversationManager_is_initialized
    /\ _last_source_docs = DocList(<<>>)
    /\ Len(_chat_history) = 1
    /\ Len(_message_history) = 2
    /\ Len(questions_asked) = 1

\* C22: after extract_text_from_files(files, continue_on_error=True)
\* returns, processed_count + len(failed_files) == len(files), both counts
\* describing this call only; a failing file does not stop the files after
\* it; get_processing_summary()['success'] is True exactly when
\* failed_files is empty. With continue_on_error=False the first failing
\* file raises PDFProcessingError and no later file is processed.
C22_BatchStatistics ==
    /\ (BatchReturned /\ continue_on_error) =>
           /\ processed_count + Len(failed_files) = Len(pdf_files)
           /\ Len(failed_files) = Cardinality(BrokenAt(pdf_files))
           /\ \A j \in 1..Len(failed_files) :
                  failed_files[j] = pdf_files[Nth(BrokenAt(pdf_files), j)].name
    /\ op = "get_processing_summary" =>
           (result.success <=> failed_files = <<>>)
    /\ (op = "extract_text_from_files" /\ pc = "done" /\ ~continue_on_error) =>
           IF BrokenAt(pdf_files) = {} THEN raised = ""
           ELSE /\ raised = "PDFProcessingError"
                /\ file_idx = Nth(BrokenAt(pdf_files), 1)
                /\ processed_count = file_idx - 1
                /\ failed_files = <<pdf_files[file_idx].name>>

\* C22 witness: the processor's second call has returned from a batch of a
\* failing file and two readable files after it
C22_Witness ==
    /\ BatchReturned
    /\ continue_on_error
    /\ ncalls = 2
    /\ Len(pdf_files) = 3
    /\ pdf_files[1].broken
    /\ processed_count = 2
    /\ Len(failed_files) = 1
(***************************************************************************)
(* Properties of extract_citations                                         *)
(***************************************************************************)
\* the number of matches, over the three patterns, that cite (authors, year)
TimesCited(ms, authors, year) ==
    Cardinality({k \in 1..Len(ms) : ms[k].authors = authors /\ ms[k].year = year})

Returns(r, authors, year) ==
    \E i \in 1..Len(r) : r[i].authors = authors /\ r[i].year = year

\* r is the list of the most cited of the matches ms
MostCited(r, ms) ==
    /\ Len(r) <= 15
    /\ \A i, j \in 1..Len(r) :
           i < j => /\ ~(r[i].authors = r[j].authors /\ r[i].year = r[j].year)
                    /\ r[i].cited_count >= r[j].cited_count
    /\ \A i \in 1..Len(r) :
           r[i].cited_count = TimesCited(ms, r[i].authors, r[i].year)
    /\ \A k \in 1..Len(ms) :
           ~Returns(r, ms[k].authors, ms[k].year) =>
               \A i \in 1..Len(r) :
                   TimesCited(ms, ms[k].authors, ms[k].year) <= r[i].cited_count

\* C23: extract_citations returns at most 15 citations with pairwise
\* distinct (authors, year), each with cited_count equal to the number of
\* in-text matches of that (authors, year) over the three citation patterns,
\* ordered by non-increasing cited_count, and no citation left out has a
\* higher count than one returned.
C23_MostCitedReturned ==
    op = "extract_citations" => MostCited(result, all_cited(text))

\* C23 witness: more than 15 works are cited; the one cited twice is found
\* after 16 others and returned first, and works cited once are left out
C23_Witness ==
    /\ op = "extract_citations"
    /\ Len(result) = 15
    /\ result[1].authors = <<"K", "i", "m">>
    /\ result[1].cited_count = 2
    /\ result[15].cited_count = 1
    /\ Len(all_cited(text)) = 19

(***************************************************************************)
(* DocumentAnalyzer._extract_keywords on texts with repeated words         *)
(***************************************************************************)
NetworkThrice == <<"n", "e", "u", "r", "a", "l", " ", "n", "e", "t", "w", "o", "r", "k", " ", "n", "e", "u", "r", "a", "l", " ", "n", "e", "t", "w", "o", "r", "k", " ", "n", "e", "u", "r", "a", "l", " ", "n", "e", "t", "w", "o", "r", "k", " ">>
GraphTwice == <<"g", "r", "a", "p", "h", " ", "g", "r", "a", "p", "h", " ", "t", "r", "e", "e", " ">>
TreeNetwork == <<"t", "r", "e", "e", " ", "n", "e", "t", "w", "o", "r", "k", " ", "t", "r", "e", "e", " ">>
RhythmTwice == <<"r", "h", "y", "t", "h", "m", " ", "r", "h", "y", "t", "h", "m", " ">>

KeywordPieces == {NetworkThrice, GraphTwice, TreeNetwork, RhythmTwice}

\* the top_n a caller passes: the default of line 171 and two small ones
TopNs == {1, 2, KeywordTopN}

InitKeywords ==
    /\ InitCommon
    /\ chunk_size = DefaultChunkSize

ExtractKeywords ==
    \E n \in TopNs :
        /\ pc = "input"
        /\ op' = "_extract_keywords"
        /\ top_n_given' = n
        /\ result' = _extract_keywords(text, n)
        /\ pc' = "done"
        /\ UNCHANGED <<text, npieces, chunkVars, previous, returned, managerVars>>

NextKeywords ==
    \/ \E p \in KeywordPieces : AppendPiece(p, MaxKeywordPieces)
    \/ ExtractKeywords

SpecKeywords == InitKeywords /\ [][NextKeywords]_vars

\* a keyword of two words, as line 189 writes it
IsBigram(keyword) == \E k \in 1..Len(keyword) : keyword[k] = " "

\* bigrams first, no unigram a word of a bigram, nothing twice, at most n
MergedKeywords(r, n) ==
    /\ Len(r) <= n
    /\ \A i, j \in 1..Len(r) : i < j => r[i] # r[j]
    /\ \A i, j \in 1..Len(r) :
           IsBigram(r[i]) /\ ~IsBigram(r[j]) =>
               /\ i < j
               /\ r[j] # split(r[i])[1]
               /\ r[j] # split(r[i])[2]

\* C24: in the list _extract_keywords(text, top_n) returns every bigram
\* comes before every unigram, no unigram is one of the two words of a
\* returned bigram, no keyword is there twice, and there are at most top_n
\* keywords.
C24_KeywordsMerged ==
    op = "_extract_keywords" => MergedKeywords(result, top_n_given)

\* C24 witness: 'network' occurs four times but is a word of the bigram, so
\* the slot after the bigram goes to 'tree', and top_n = 2 leaves 'graph' out
C24_Witness ==
    /\ op = "_extract_keywords"
    /\ top_n_given = 2
    /\ text = NetworkThrice \o GraphTwice \o TreeNetwork
    /\ result = <<<<"n", "e", "u", "r", "a", "l", " ", "n", "e", "t", "w", "o", "r", "k">>, <<"t", "r", "e", "e">>>>

\* the header segments the loop has been through before segment k
HeadersBefore(k) == {i \in 1..(k - 1) : section_match(sections[i])}

\* the label of the last header before segment k, None if there is none
LabelBefore(k) ==
    IF HeadersBefore(k) = {} THEN None
    ELSE capitalize(sections[CHOOSE i \in HeadersBefore(k) :
                                 \A h \in HeadersBefore(k) : h <= i])

\* the loop is at a segment that _section_pattern matches
HeaderReached == pc = "loop" /\ idx <= Len(sections) /\ section_match(sections[idx])

\* the whitespace-delimited words of the pending buffer
BufferWords(words) == Flatten([i \in 1..Len(words) |-> split(words[i])])

BeginsWith(ws, vs) == Len(vs) <= Len(ws) /\ SubSeq(ws, 1, Len(vs)) = vs

\* one step of the loop of create_chunks
HeaderStep ==
    pc = "loop" =>
        /\ Len(chunks') >= Len(chunks)
        /\ SubSeq(chunks', 1, Len(chunks)) = chunks
        /\ current_section = LabelBefore(idx)
        /\ \A k \in (Len(chunks) + 1)..Len(chunks') :
               chunks'[k].section = current_section
        /\ Len(chunks') > Len(chunks) /\ current_chunk_words # <<>> =>
               BeginsWith(split(chunks'[Len(chunks) + 1].content),
                          BufferWords(current_chunk_words))
        /\ HeaderReached =>
               /\ Len(chunks') = Len(chunks) + (IF current_chunk_words # <<>> THEN 1 ELSE 0)
               /\ current_chunk_words' = <<sections[idx]>>
               /\ current_section' = capitalize(sections[idx])

\* C25: in create_chunks, at a header segment a pending buffer is first
\* emitted as one chunk labelled with the section in force before (None
\* before the first header), the buffer then holds the header alone and the
\* label becomes the header's; every chunk is emitted with the label of the
\* last header met, and begins with the words that were pending, so that the
\* header opens the next chunk.
C25_HeaderFlushesAndLabels == [][HeaderStep]_vars

\* C25 witness: the second header has just been met: the word pending at the
\* first header was emitted unlabelled, the buffer that held the first header
\* was emitted with its label, and the buffer now holds the second header
\* under the new label
C25_Witness ==
    /\ pc = "loop"
    /\ op = "create_chunks"
    /\ Len(chunks) = 2
    /\ chunks[1].content = <<"w">> /\ chunks[1].section = None
    /\ chunks[2].content = <<"A", "b", "s", "t", "r", "a", "c", "t">> /\ chunks[2].section = <<"A", "b", "s", "t", "r", "a", "c", "t">>
    /\ current_chunk_words = <<<<"r", "e", "s", "u", "l", "t", "s", "\n">>>>
    /\ current_section = <<"R", "e", "s", "u", "l", "t", "s", "\n">>

\* C30: after create_chain has succeeded (a new document set was processed)
\* the conversation starts fresh: the message history that the next ask
\* hands to the model holds no question or answer from before.
C30_CreateChainStartsFresh ==
    (op = "create_chain" /\ raised = "") => _message_history = <<>>

====
